---------------------------- MODULE Spec2Model ----------------------------
(***************************************************************************)
(* Welding simulator: the session aggregator (useWeldingSimulation in      *)
(* src/src/hooks/useSensors.ts) and the metric calculator                  *)
(* (src/unnamed/part_006, weldingCalculations).                            *)
(*                                                                         *)
(* Numbers.  The source computes on IEEE doubles; the model computes on    *)
(* exact fixed-point integers:                                             *)
(*   - a physical quantity (degrees, millimetres, m/s^2, speed units) is   *)
(*     held in tenths (Q == 10): 9.8 is 98;                                *)
(*   - a score is held in 1/900 of a point (P == 900): 100 points is       *)
(*     90000.  Every per-sample score of the hook is a whole number of     *)
(*     such units for inputs given in tenths;                              *)
(*   - a mean over n samples is held as the fraction [num, den].           *)
(*                                                                         *)
(* React.  Every hook callback closes over the state of the last render.   *)
(* The Simulator calls one callback per event or effect run and React      *)
(* re-renders before the next, so one action is one callback run on the    *)
(* committed state followed by the commit of its setState calls.           *)
(***************************************************************************)
EXTENDS Integers, Sequences, FiniteSets, TLC

VARIABLES
    currentTechnique,   \* useState<WeldingType>('MIG')
    isRecording,        \* useState(false)
    currentSession,     \* useState<WeldingSession | null>(null)
    currentMetrics,     \* useState<RealTimeMetrics | null>(null)
    sessionStartTime,   \* useState<number | null>(null)
    now,                \* the value Date.now() returns
    lastOp,             \* the callback that ran last
    lastResult,         \* what that callback returned
    probe               \* the last evaluation of the scoring functions

vars == <<currentTechnique, isRecording, currentSession, currentMetrics,
          sessionStartTime, now, lastOp, lastResult, probe>>

\* The state of the hook.
hookVars == <<currentTechnique, isRecording, currentSession, currentMetrics,
              sessionStartTime, now, lastOp, lastResult>>

-----------------------------------------------------------------------------
(* Bounds of the model *)

\* Date.now() advances up to this value.
MaxClock == 2

\* Samples the sensors deliver to one session.
MaxSamples == 2

\* Grid steps a probed value lies outside (or inside) its ideal range.
MaxProbeSteps == 21

\* Entries of a rolling history handed to the metric calculator.
MaxHistory == 2

-----------------------------------------------------------------------------
(* Representation *)

\* Tenths per unit of a physical quantity: the resolution of the literal 9.8.
Q == 10

\* Score units per point: thirds (variance / 3, stability / 3) of a third of
\* a hundredth (a product of two quantities in tenths).
P == 9 * Q * Q

\* The gravity that calculateRealTimeMetrics removes: 9.8, in tenths.
GRAVITY == 98

\* null / undefined of an object-valued slot.
NULL == [null |-> TRUE]

\* No scoring function is being evaluated.
NoProbe == [metric |-> "none", evaluated |-> FALSE]

\* null / undefined of a number-valued slot that the code only tests for
\* truthiness (sessionStartTime, endTime).  Date.now() is never 0.
NoTime == 0

Max(a, b) == IF a >= b THEN a ELSE b

Min(a, b) == IF a <= b THEN a ELSE b

Abs(a) == IF a < 0 THEN -a ELSE a

RECURSIVE SqrtSearch(_, _, _)
\* The largest r in lo..hi with r*r <= n.
SqrtSearch(n, lo, hi) ==
    IF lo >= hi THEN lo
    ELSE LET mid == (lo + hi + 1) \div 2
         IN  IF mid * mid <= n THEN SqrtSearch(n, mid, hi)
                               ELSE SqrtSearch(n, lo, mid - 1)

\* Math.sqrt, rounded down to a whole number of the argument's root unit.
Sqrt(n) == SqrtSearch(n, 0, Min(n, 46340))

\* A score given in points.
Points(p) == p * P

\* A mean: num / den score units.
Frac(num, den) == [num |-> num, den |-> den]

\* score >= p points, for a mean.
FracGE(f, p) == f.num >= Points(p) * f.den

-----------------------------------------------------------------------------
(* Technique profiles *)

WeldingType == {"MIG", "TIG", "ELECTRODO"}

\* The profiles with a TIG smoothness weight of 20.
WELDING_PARAMETERS_BadWeights ==
    [t \in WeldingType |->
        CASE t = "MIG" ->
               [technique |-> "MIG",
                idealAngle |-> [min |-> 70, max |-> 80],
                idealDistance |-> [min |-> 10, max |-> 15],
                idealSpeed |-> [min |-> 5, max |-> 15],
                scoring |-> [angle |-> 40, distance |-> 30,
                             speed |-> 20, smoothness |-> 10]]
          [] t = "TIG" ->
               [technique |-> "TIG",
                idealAngle |-> [min |-> 60, max |-> 75],
                idealDistance |-> [min |-> 2, max |-> 5],
                idealSpeed |-> [min |-> 3, max |-> 8],
                scoring |-> [angle |-> 40, distance |-> 30,
                             speed |-> 20, smoothness |-> 20]]
          [] t = "ELECTRODO" ->
               [technique |-> "ELECTRODO",
                idealAngle |-> [min |-> 60, max |-> 80],
                idealDistance |-> [min |-> 5, max |-> 12],
                idealSpeed |-> [min |-> 8, max |-> 20],
                scoring |-> [angle |-> 40, distance |-> 30,
                             speed |-> 20, smoothness |-> 10]]]

WELDING_PARAMETERS ==
    [t \in WeldingType |->
        CASE t = "MIG" ->
               [technique |-> "MIG",
                idealAngle |-> [min |-> 70, max |-> 80],
                idealDistance |-> [min |-> 10, max |-> 15],
                idealSpeed |-> [min |-> 5, max |-> 15],
                scoring |-> [angle |-> 40, distance |-> 30,
                             speed |-> 20, smoothness |-> 10]]
          [] t = "TIG" ->
               [technique |-> "TIG",
                idealAngle |-> [min |-> 60, max |-> 75],
                idealDistance |-> [min |-> 2, max |-> 5],
                idealSpeed |-> [min |-> 3, max |-> 8],
                scoring |-> [angle |-> 40, distance |-> 30,
                             speed |-> 20, smoothness |-> 10]]
          [] t = "ELECTRODO" ->
               [technique |-> "ELECTRODO",
                idealAngle |-> [min |-> 60, max |-> 80],
                idealDistance |-> [min |-> 5, max |-> 12],
                idealSpeed |-> [min |-> 8, max |-> 20],
                scoring |-> [angle |-> 40, distance |-> 30,
                             speed |-> 20, smoothness |-> 10]]]

-----------------------------------------------------------------------------
(* Per-sample scores of the hook.  Values are in tenths, ranges in units.  *)

\* Math.min(|v - min|, |v - max|), in tenths.
Deviation(value, idealRange) ==
    Min(Abs(value - idealRange.min * Q), Abs(value - idealRange.max * Q))

InRange(value, idealRange) ==
    value >= idealRange.min * Q /\ value <= idealRange.max * Q

\* calculateAngleScore without Math.max(0, ...).
calculateAngleScore_NoFloor(angle, idealRange) ==
    IF InRange(angle, idealRange) THEN Points(100)
    ELSE Points(100) - (Deviation(angle, idealRange) * 2 * P) \div Q

\* 100 - deviation * 2
calculateAngleScore(angle, idealRange) ==
    IF InRange(angle, idealRange) THEN Points(100)
    ELSE Max(0, Points(100) - (Deviation(angle, idealRange) * 2 * P) \div Q)

\* calculateDistanceScore without the early return for a value in range.
calculateDistanceScore_NoRangeCheck(distance, idealRange) ==
    Max(0, Points(100) - (Deviation(distance, idealRange) * 5 * P) \div Q)

\* 100 - deviation * 5
calculateDistanceScore(distance, idealRange) ==
    IF InRange(distance, idealRange) THEN Points(100)
    ELSE Max(0, Points(100) - (Deviation(distance, idealRange) * 5 * P) \div Q)

\* 100 - deviation * 3
calculateSpeedScore(speed, idealRange) ==
    IF InRange(speed, idealRange) THEN Points(100)
    ELSE Max(0, Points(100) - (Deviation(speed, idealRange) * 3 * P) \div Q)

\* x^2 + y^2 + z^2 of an acceleration given in tenths (in hundredths).
SumSquares(accel) == accel[1] * accel[1] + accel[2] * accel[2] + accel[3] * accel[3]

\* variance = (x^2 + y^2 + z^2) / 3;  100 - variance * 10
calculateSmoothnessScore(sensorData) ==
    Max(0, Points(100) - (SumSquares(sensorData.acceleration) * 10 * P) \div (3 * Q * Q))

\* The four per-sample scores that calculateRealTimeMetrics combines.
SampleScores(sensorData, markerData, parameters) ==
    LET angle    == Abs(sensorData.gyroscope.beta)
        distance == IF markerData # NULL THEN markerData.position.z ELSE 0
        speed    == Abs(Sqrt(SumSquares(sensorData.acceleration)) - GRAVITY)
    IN  [currentAngle    |-> angle,
         currentDistance |-> distance,
         currentSpeed    |-> speed,
         angleScore      |-> calculateAngleScore(angle, parameters.idealAngle),
         distanceScore   |-> calculateDistanceScore(distance, parameters.idealDistance),
         speedScore      |-> calculateSpeedScore(speed, parameters.idealSpeed),
         smoothnessScore |-> calculateSmoothnessScore(sensorData)]

\* (angle*w.angle + distance*w.distance + speed*w.speed + smoothness*w.smoothness) / 100
Weighted(a, d, s, m, scoring) ==
    (a * scoring.angle + d * scoring.distance
       + s * scoring.speed + m * scoring.smoothness) \div 100

calculateRealTimeMetrics(sensorData, markerData, parameters, clock) ==
    LET sc == SampleScores(sensorData, markerData, parameters)
    IN  [currentAngle    |-> sc.currentAngle,
         currentDistance |-> sc.currentDistance,
         currentSpeed    |-> sc.currentSpeed,
         stabilityScore  |-> (sc.angleScore + sc.distanceScore + sc.speedScore) \div 3,
         qualityScore    |-> Weighted(sc.angleScore, sc.distanceScore,
                                      sc.speedScore, sc.smoothnessScore,
                                      parameters.scoring),
         isInRange       |-> sc.angleScore > Points(70) /\ sc.distanceScore > Points(70),
         timestamp       |-> clock]

-----------------------------------------------------------------------------
(* Final score and grade *)

RECURSIVE SumOver(_, _)
\* metrics.reduce((sum, m) => sum + f(m), 0), f given as a sequence of terms
SumOver(terms, i) ==
    IF i = 0 THEN 0 ELSE SumOver(terms, i - 1) + terms[i]

\* The sample calculateFinalScore hands to calculateSmoothnessScore.
FinalSmoothnessSample(m) ==
    [acceleration |-> <<0, 0, 0>>,
     gyroscope    |-> [beta |-> m.currentAngle],
     timestamp    |-> m.timestamp]

\* calculateFinalScore without the early return for an empty sequence:
\* the means are 0 / 0.
calculateFinalScore_NoEmptyGuard(metrics, parameters) ==
    LET n == Len(metrics)
        sumAngle == SumOver([i \in 1..n |->
            calculateAngleScore(metrics[i].currentAngle, parameters.idealAngle)], n)
        sumDistance == SumOver([i \in 1..n |->
            calculateDistanceScore(metrics[i].currentDistance, parameters.idealDistance)], n)
        sumSpeed == SumOver([i \in 1..n |->
            calculateSpeedScore(metrics[i].currentSpeed, parameters.idealSpeed)], n)
        sumSmoothness == SumOver([i \in 1..n |->
            calculateSmoothnessScore(FinalSmoothnessSample(metrics[i]))], n)
    IN  Frac(Weighted(sumAngle, sumDistance, sumSpeed, sumSmoothness,
                      parameters.scoring), n)

calculateFinalScore(metrics, parameters) ==
    IF Len(metrics) = 0 THEN Frac(0, 1)
    ELSE LET n == Len(metrics)
             sumAngle == SumOver([i \in 1..n |->
                 calculateAngleScore(metrics[i].currentAngle, parameters.idealAngle)], n)
             sumDistance == SumOver([i \in 1..n |->
                 calculateDistanceScore(metrics[i].currentDistance, parameters.idealDistance)], n)
             sumSpeed == SumOver([i \in 1..n |->
                 calculateSpeedScore(metrics[i].currentSpeed, parameters.idealSpeed)], n)
             sumSmoothness == SumOver([i \in 1..n |->
                 calculateSmoothnessScore(FinalSmoothnessSample(metrics[i]))], n)
         IN  Frac(Weighted(sumAngle, sumDistance, sumSpeed, sumSmoothness,
                           parameters.scoring), n)

\* A score above p points, for a mean.
FracGT(f, p) == f.num > Points(p) * f.den

\* getGrade with > for >=.
getGrade_Strict(score) ==
    IF FracGT(score, 90) THEN "A"
    ELSE IF FracGT(score, 80) THEN "B"
    ELSE IF FracGT(score, 70) THEN "C"
    ELSE IF FracGT(score, 60) THEN "D"
    ELSE "F"

getGrade(score) ==
    IF FracGE(score, 90) THEN "A"
    ELSE IF FracGE(score, 80) THEN "B"
    ELSE IF FracGE(score, 70) THEN "C"
    ELSE IF FracGE(score, 60) THEN "D"
    ELSE "F"

\* certificateUtils.ts
calculateCertificateGrade(score) ==
    IF FracGE(score, 90) THEN "A"
    ELSE IF FracGE(score, 80) THEN "B"
    ELSE IF FracGE(score, 70) THEN "C"
    ELSE IF FracGE(score, 60) THEN "D"
    ELSE "F"

-----------------------------------------------------------------------------
(* The metric calculator (weldingCalculations) *)

\* 100 - deviation * 2
evaluateAngleAccuracy(angle, idealRange) ==
    IF angle >= idealRange.min * Q /\ angle <= idealRange.max * Q
    THEN Points(100)
    ELSE Max(0, Points(100) - (Deviation(angle, idealRange) * 2 * P) \div Q)

\* n^2 times the variance of the values (tenths squared):
\* sum((v - avg)^2) / n  with  avg = sum(v) / n.
SpreadSquared(values) ==
    LET n == Len(values)
    IN  n * SumOver([i \in 1..n |-> values[i] * values[i]], n)
          - SumOver(values, n) * SumOver(values, n)

\* Math.sqrt(variance), in hundredths of a unit, rounded down.
StandardDeviation(values) ==
    Sqrt(SpreadSquared(values) * Q * Q) \div Len(values)

\* 0 out of range, 100 on the first measurement, else 100 - stddev * 20
evaluateDistanceStability(currentDistance, previousDistances, idealRange) ==
    IF currentDistance < idealRange.min * Q \/ currentDistance > idealRange.max * Q
    THEN 0
    ELSE IF Len(previousDistances) = 0 THEN Points(100)
    ELSE Max(0, Points(100) - (StandardDeviation(previousDistances) * 20 * P) \div (Q * Q))

\* 0 out of range, 100 on the first measurement, else 100 - stddev * 30
evaluateSpeedConsistency(currentSpeed, previousSpeeds, idealRange) ==
    IF currentSpeed < idealRange.min * Q \/ currentSpeed > idealRange.max * Q
    THEN 0
    ELSE IF Len(previousSpeeds) = 0 THEN Points(100)
    ELSE Max(0, Points(100) - (StandardDeviation(previousSpeeds) * 30 * P) \div (Q * Q))

-----------------------------------------------------------------------------
(* Inputs the sensors and the camera deliver *)

\* deviceorientation beta, in tenths of a degree
BetaInputs == {-750, 2850}

\* devicemotion acceleration (x, y, z), in tenths of m/s^2
AccelInputs == {<<0, 0, 0>>, <<30, 40, 0>>}

\* the latest marker (position.z in tenths of a millimetre), or none
MarkerInputs == {NULL, [position |-> [z |-> 120]]}

\* The sample carries the Date.now() of its delivery.
SensorInputs(clock) ==
    {[acceleration |-> a, gyroscope |-> [beta |-> b], timestamp |-> clock] :
        a \in AccelInputs, b \in BetaInputs}

-----------------------------------------------------------------------------
(* The session hook *)

Init ==
    /\ currentTechnique = "MIG"
    /\ isRecording = FALSE
    /\ currentSession = NULL
    /\ currentMetrics = NULL
    /\ sessionStartTime = NoTime
    /\ now = 1
    /\ lastOp = "init"
    /\ lastResult = NULL
    /\ probe = NoProbe

\* WELDING_PARAMETERS[technique]: undefined for a key the table lacks.
ParametersOf(technique) ==
    IF technique \in DOMAIN WELDING_PARAMETERS
    THEN WELDING_PARAMETERS[technique]
    ELSE NULL

\* The session startSession builds; t1 and t2 are its two Date.now() reads.
NewSession(technique, t1, t2) ==
    [id         |-> t1,
     technique  |-> technique,
     startTime  |-> t2,
     endTime    |-> NoTime,
     duration   |-> 0,
     parameters |-> ParametersOf(technique),
     sensorData |-> <<>>,
     markerData |-> <<>>,
     metrics    |-> <<>>,
     finalScore |-> Frac(0, 1),
     grade      |-> "F"]

\* startSession(technique): three reads of the clock, which may advance
\* between them.
startSession(technique) ==
    \E t1 \in now..MaxClock : \E t2 \in t1..MaxClock : \E t3 \in t2..MaxClock :
        /\ currentSession' = NewSession(technique, t1, t2)
        /\ currentTechnique' = technique
        /\ isRecording' = TRUE
        /\ sessionStartTime' = t3
        /\ now' = t3
        /\ lastOp' = "start"
        /\ lastResult' = NewSession(technique, t1, t2)
        /\ UNCHANGED <<currentMetrics, probe>>

\* The session stopSession builds from the rendered one.
CompletedSession(session, endTime, startedAt) ==
    LET finalScore == calculateFinalScore(session.metrics, session.parameters)
    IN  [session EXCEPT !.endTime    = endTime,
                        !.duration   = endTime - startedAt,
                        !.finalScore = finalScore,
                        !.grade      = getGrade(finalScore)]

\* The guard of stopSession without its test of sessionStartTime.
StopRejected_NoStartTimeTest == currentSession = NULL

\* if (!currentSession || !sessionStartTime) return null
StopRejected == currentSession = NULL \/ sessionStartTime = NoTime

stopSession ==
    /\ lastOp' = "stop"
    /\ IF StopRejected
       THEN /\ lastResult' = NULL
            /\ UNCHANGED <<currentSession, isRecording, sessionStartTime>>
       ELSE /\ currentSession' = CompletedSession(currentSession, now, sessionStartTime)
            /\ isRecording' = FALSE
            /\ sessionStartTime' = NoTime
            /\ lastResult' = CompletedSession(currentSession, now, sessionStartTime)
    /\ UNCHANGED <<currentTechnique, currentMetrics, now, probe>>

\* The error a read of parameters.idealAngle raises when parameters is
\* undefined.
TypeError == [thrown |-> "TypeError"]

\* if (!isRecording || !currentSession) return
UpdateRejected == ~isRecording \/ currentSession = NULL

\* updateSession storing the new entries in place of the stored ones.
updateSession_Overwrite(sensorData, markerData) ==
    /\ lastOp' = "update"
    /\ lastResult' = NULL
    /\ IF UpdateRejected
       THEN UNCHANGED <<currentSession, currentMetrics>>
       ELSE LET metrics == calculateRealTimeMetrics(sensorData, markerData,
                                                    currentSession.parameters, now)
            IN  /\ currentMetrics' = metrics
                /\ currentSession' =
                     [currentSession EXCEPT
                        !.sensorData = <<sensorData>>,
                        !.markerData = IF markerData # NULL
                                       THEN <<markerData>> ELSE @,
                        !.metrics    = <<metrics>>]
    /\ UNCHANGED <<currentTechnique, isRecording, sessionStartTime, now, probe>>

updateSession(sensorData, markerData) ==
    /\ lastOp' = "update"
    /\ lastResult' = IF ~UpdateRejected /\ currentSession.parameters = NULL
                     THEN TypeError ELSE NULL
    /\ IF UpdateRejected \/ currentSession.parameters = NULL
       THEN UNCHANGED <<currentSession, currentMetrics>>
       ELSE LET metrics == calculateRealTimeMetrics(sensorData, markerData,
                                                    currentSession.parameters, now)
            IN  /\ currentMetrics' = metrics
                /\ currentSession' =
                     [currentSession EXCEPT
                        !.sensorData = Append(@, sensorData),
                        !.markerData = IF markerData # NULL
                                       THEN Append(@, markerData) ELSE @,
                        !.metrics    = Append(@, metrics)]
    /\ UNCHANGED <<currentTechnique, isRecording, sessionStartTime, now, probe>>

\* The caller starts a session.
Start == \E technique \in WeldingType : startSession(technique)

\* The caller stops.
Stop == stopSession

\* A sample (with the latest marker, if any) reaches updateSession.
Update ==
    /\ currentSession # NULL => Len(currentSession.sensorData) < MaxSamples
    /\ \E sensorData \in SensorInputs(now), markerData \in MarkerInputs :
           updateSession(sensorData, markerData)

\* Time passes.
Tick ==
    /\ now < MaxClock
    /\ now' = now + 1
    /\ lastOp' = "tick"
    /\ UNCHANGED <<currentTechnique, isRecording, currentSession, currentMetrics,
                   sessionStartTime, lastResult, probe>>

Next == Start \/ Stop \/ Update \/ Tick

Spec == Init /\ [][Next]_vars

-----------------------------------------------------------------------------
(* The scoring functions on their own: the initial state draws a metric,   *)
(* a technique, two values and a rolling history; the action of the metric *)
(* evaluates the hook's and the calculator's score of both values.         *)

\* The grid of probed values: 2.5 units.
ProbeStep == (5 * Q) \div 2

\* Values up to MaxProbeSteps grid steps below, inside and above the range.
ProbeValues(idealRange) ==
    {idealRange.min * Q - k * ProbeStep : k \in 0..MaxProbeSteps}
      \cup {idealRange.max * Q + k * ProbeStep : k \in 0..MaxProbeSteps}
      \cup {v \in {idealRange.min * Q + k * ProbeStep : k \in 0..MaxProbeSteps} :
                v <= idealRange.max * Q}

\* Rolling histories of in-range values.
Histories(idealRange) ==
    UNION {[1..n -> {idealRange.min * Q, idealRange.max * Q}] : n \in 0..MaxHistory}

\* A probe before its evaluation.
ProbeInput(metric, t, r, v, w, h) ==
    [metric |-> metric, technique |-> t, range |-> r,
     value |-> v, other |-> w, history |-> h, evaluated |-> FALSE]

Metrics == {"angle", "distance", "speed"}

\* The ideal range of a metric in a technique's profile.
IdealRange(metric, t) ==
    CASE metric = "angle"    -> WELDING_PARAMETERS[t].idealAngle
      [] metric = "distance" -> WELDING_PARAMETERS[t].idealDistance
      [] metric = "speed"    -> WELDING_PARAMETERS[t].idealSpeed

\* evaluateAngleAccuracy takes no history.
ProbeHistories(metric, r) ==
    IF metric = "angle" THEN {<<>>} ELSE Histories(r)

\* The probe with the hook's and the calculator's scores of its two values.
Evaluated(p, hook, hookOther, calc, calcOther) ==
    [metric |-> p.metric, technique |-> p.technique, range |-> p.range,
     value |-> p.value, other |-> p.other, history |-> p.history,
     evaluated |-> TRUE,
     hook |-> hook, hookOther |-> hookOther,
     calc |-> calc, calcOther |-> calcOther]

ScoreInit ==
    /\ currentTechnique = "MIG"
    /\ isRecording = FALSE
    /\ currentSession = NULL
    /\ currentMetrics = NULL
    /\ sessionStartTime = NoTime
    /\ now = 1
    /\ lastOp = "init"
    /\ lastResult = NULL
    /\ \E metric \in Metrics, t \in WeldingType :
         \E v \in ProbeValues(IdealRange(metric, t)),
            w \in ProbeValues(IdealRange(metric, t)),
            h \in ProbeHistories(metric, IdealRange(metric, t)) :
              probe = ProbeInput(metric, t, IdealRange(metric, t), v, w, h)

ProbeAngle ==
    /\ probe.metric = "angle" /\ ~probe.evaluated
    /\ probe' = Evaluated(probe,
                    calculateAngleScore(probe.value, probe.range),
                    calculateAngleScore(probe.other, probe.range),
                    evaluateAngleAccuracy(probe.value, probe.range),
                    evaluateAngleAccuracy(probe.other, probe.range))
    /\ UNCHANGED hookVars

ProbeDistance ==
    /\ probe.metric = "distance" /\ ~probe.evaluated
    /\ probe' = Evaluated(probe,
                    calculateDistanceScore(probe.value, probe.range),
                    calculateDistanceScore(probe.other, probe.range),
                    evaluateDistanceStability(probe.value, probe.history, probe.range),
                    evaluateDistanceStability(probe.other, probe.history, probe.range))
    /\ UNCHANGED hookVars

ProbeSpeed ==
    /\ probe.metric = "speed" /\ ~probe.evaluated
    /\ probe' = Evaluated(probe,
                    calculateSpeedScore(probe.value, probe.range),
                    calculateSpeedScore(probe.other, probe.range),
                    evaluateSpeedConsistency(probe.value, probe.history, probe.range),
                    evaluateSpeedConsistency(probe.other, probe.history, probe.range))
    /\ UNCHANGED hookVars

ScoreNext == ProbeAngle \/ ProbeDistance \/ ProbeSpeed

ScoreSpec == ScoreInit /\ [][ScoreNext]_vars

-----------------------------------------------------------------------------
(* Properties of the session hook *)

\* C1: startSession called while a session is Recording and holds at least
\* one sample does not lose that session's data: the call leaves
\* currentSession as it is, or the session it replaces had been finalized
\* (it has an endTime).
C1_StartKeepsInFlightData ==
    [][(lastOp' = "start" /\ isRecording /\ currentSession # NULL
          /\ Len(currentSession.sensorData) >= 1)
        => \/ currentSession' = currentSession
           \/ currentSession.endTime # NoTime]_vars

\* C2: an accepted updateSession appends exactly its sample to sensorData,
\* its marker (when there is one) to markerData and one entry to metrics, and
\* keeps every stored entry in place; stopSession finalizes the session with
\* the sequences as the updates left them, one metrics entry per sample.
C2_UpdateAppendsOne ==
    /\ [][\A s \in SensorInputs(now), m \in MarkerInputs :
            (updateSession(s, m) /\ ~UpdateRejected) =>
              /\ currentSession'.sensorData = Append(currentSession.sensorData, s)
              /\ currentSession'.markerData =
                   IF m # NULL THEN Append(currentSession.markerData, m)
                               ELSE currentSession.markerData
              /\ Len(currentSession'.metrics) = Len(currentSession.metrics) + 1
              /\ SubSeq(currentSession'.metrics, 1, Len(currentSession.metrics))
                   = currentSession.metrics]_vars
    /\ [][(lastOp' = "stop" /\ isRecording) =>
              /\ lastResult' # NULL
              /\ lastResult'.sensorData = currentSession.sensorData
              /\ lastResult'.markerData = currentSession.markerData
              /\ lastResult'.metrics = currentSession.metrics
              /\ Len(lastResult'.metrics) = Len(lastResult'.sensorData)
              /\ Len(lastResult'.markerData) <= Len(lastResult'.sensorData)]_vars

\* C2 witness: a stop has finalized a session of two samples, one of them
\* with a marker.
C2_Witness ==
    /\ lastOp = "stop"
    /\ lastResult # NULL
    /\ Len(lastResult.sensorData) = 2
    /\ Len(lastResult.metrics) = 2
    /\ Len(lastResult.markerData) = 1

\* C3: while no session is Recording, updateSession and stopSession leave
\* currentSession, isRecording and currentMetrics as they are.
C3_NoOpOutsideRecording ==
    [][(~isRecording /\ lastOp' \in {"update", "stop"})
        => UNCHANGED <<currentSession, isRecording, currentMetrics>>]_vars

\* C3 witness: an update has been called on a completed session with
\* samples, after the clock moved past its endTime.
C3_Witness ==
    /\ lastOp = "update"
    /\ ~isRecording
    /\ currentSession # NULL
    /\ currentSession.endTime # NoTime
    /\ Len(currentSession.metrics) >= 1
    /\ now > currentSession.endTime

\* C4: stopSession called on a session that is already completed returns
\* that completed session, with the finalScore and grade of the first call,
\* and changes nothing.
C4_SecondStopReturnsFrozen ==
    [][(lastOp' = "stop" /\ ~isRecording /\ currentSession # NULL
          /\ currentSession.endTime # NoTime)
        => /\ currentSession' = currentSession
           /\ lastResult' = currentSession]_vars

\* C5: stopSession on a Recording session without samples completes it:
\* isRecording becomes false and the returned session, which is the current
\* one, has an endTime, a final score of 0 that is not a 0 / 0, and grade F.
C5_EmptySessionScoresZero ==
    [][(lastOp' = "stop" /\ isRecording /\ currentSession # NULL
          /\ Len(currentSession.metrics) = 0)
        => /\ ~isRecording'
           /\ lastResult' # NULL
           /\ lastResult' = currentSession'
           /\ lastResult'.endTime # NoTime
           /\ lastResult'.finalScore.den > 0
           /\ lastResult'.finalScore.num = 0
           /\ lastResult'.grade = "F"]_vars

\* C5 witness: a stop has completed a session that has no samples.
C5_Witness ==
    /\ lastOp = "stop"
    /\ ~isRecording
    /\ lastResult # NULL
    /\ Len(lastResult.metrics) = 0
    /\ Len(lastResult.sensorData) = 0

\* C6: in a completed session the grade is A iff score >= 90, B iff
\* 80 <= score < 90, C iff 70 <= score < 80, D iff 60 <= score < 70 and
\* F iff score < 60, and calculateCertificateGrade gives the same grade.
C6_GradeIsBreakpointImage ==
    (currentSession # NULL /\ currentSession.endTime # NoTime) =>
        LET num == currentSession.finalScore.num
            den == currentSession.finalScore.den
            g   == currentSession.grade
        IN  /\ den > 0
            /\ (g = "A") <=> (num >= 90 * P * den)
            /\ (g = "B") <=> (num >= 80 * P * den /\ num < 90 * P * den)
            /\ (g = "C") <=> (num >= 70 * P * den /\ num < 80 * P * den)
            /\ (g = "D") <=> (num >= 60 * P * den /\ num < 70 * P * den)
            /\ (g = "F") <=> (num < 60 * P * den)
            /\ calculateCertificateGrade(currentSession.finalScore) = g

\* C6 witness: a completed session with samples whose score is exactly 60,
\* graded D.
C6_Witness ==
    /\ currentSession # NULL
    /\ currentSession.endTime # NoTime
    /\ Len(currentSession.metrics) >= 1
    /\ currentSession.finalScore.num = 60 * P * currentSession.finalScore.den
    /\ currentSession.grade = "D"

\* C7: the final score of a session with samples is the weighted sum, over
\* the four metrics, of the mean of the per-sample scores that entered the
\* samples' qualityScore, divided by 100; with one sample it is that
\* sample's qualityScore.
C7_FinalScoreIsWeightedMean ==
    (lastOp = "stop" /\ lastResult # NULL /\ Len(lastResult.metrics) >= 1) =>
        LET n   == Len(lastResult.metrics)
            par == lastResult.parameters
            sumAngle == SumOver([i \in 1..n |->
                calculateAngleScore(lastResult.metrics[i].currentAngle,
                                    par.idealAngle)], n)
            sumDistance == SumOver([i \in 1..n |->
                calculateDistanceScore(lastResult.metrics[i].currentDistance,
                                       par.idealDistance)], n)
            sumSpeed == SumOver([i \in 1..n |->
                calculateSpeedScore(lastResult.metrics[i].currentSpeed,
                                    par.idealSpeed)], n)
            sumSmoothness == SumOver([i \in 1..n |->
                calculateSmoothnessScore(lastResult.sensorData[i])], n)
        IN  /\ lastResult.finalScore.num * n
                 = Weighted(sumAngle, sumDistance, sumSpeed, sumSmoothness,
                            par.scoring) * lastResult.finalScore.den
            /\ n = 1 => lastResult.finalScore.num
                          = lastResult.metrics[1].qualityScore
                              * lastResult.finalScore.den

\* C10: the four weights of every profile are non-negative and sum to 100,
\* and the parameters of the current session (and of the session a callback
\* returned) are the profile of its technique, with these weights.
C10_WeightsSumTo100 ==
    LET WeightsOk(scoring) ==
            /\ scoring.angle >= 0 /\ scoring.distance >= 0
            /\ scoring.speed >= 0 /\ scoring.smoothness >= 0
            /\ scoring.angle + scoring.distance
                 + scoring.speed + scoring.smoothness = 100
        SnapshotOk(session) ==
            session # NULL =>
                /\ session.parameters = WELDING_PARAMETERS[session.technique]
                /\ WeightsOk(session.parameters.scoring)
    IN  /\ \A t \in WeldingType : WeightsOk(WELDING_PARAMETERS[t].scoring)
        /\ SnapshotOk(currentSession)
        /\ SnapshotOk(lastResult)

\* C10 witness: a completed TIG session with samples, started while another
\* technique was current.
C10_Witness ==
    /\ currentSession # NULL
    /\ currentSession.technique = "TIG"
    /\ currentSession.endTime # NoTime
    /\ Len(currentSession.metrics) >= 1
    /\ lastOp = "stop"

-----------------------------------------------------------------------------
(* Properties of the scoring functions *)

\* The value lies in [min, max].
Inside(v, r) == v >= r.min * Q /\ v <= r.max * Q

\* How far the value lies outside [min, max], in tenths.
DistanceOutside(v, r) ==
    IF v < r.min * Q THEN r.min * Q - v
    ELSE IF v > r.max * Q THEN v - r.max * Q
    ELSE 0

\* All entries of the history are equal (its standard deviation is 0).
Constant(h) == \A i \in 1..Len(h), j \in 1..Len(h) : h[i] = h[j]

\* C8 as stated: a value inside the ideal range scores exactly 100 on
\* every per-metric score, whatever the rolling history.
C8_InRangeAlways100 ==
    (probe.evaluated /\ Inside(probe.value, probe.range)) =>
        /\ probe.hook = Points(100)
        /\ probe.calc = Points(100)

\* C8 as amended: a value inside the ideal range scores exactly 100 with
\* calculateAngleScore, calculateDistanceScore, calculateSpeedScore and
\* evaluateAngleAccuracy; with evaluateDistanceStability and
\* evaluateSpeedConsistency it scores 100 iff the rolling history is empty
\* or has equal entries, and otherwise a score in [0, 100).
C8_InRangeScores ==
    (probe.evaluated /\ Inside(probe.value, probe.range)) =>
        /\ probe.hook = Points(100)
        /\ probe.metric = "angle" => probe.calc = Points(100)
        /\ probe.metric # "angle" =>
              /\ probe.calc >= 0
              /\ probe.calc <= Points(100)
              /\ (probe.calc = Points(100)) <=> Constant(probe.history)

\* C8 witness: a distance strictly inside the range, scored 100 by the hook
\* and less by the calculator, whose history varies.
C8_Witness ==
    /\ probe.evaluated
    /\ probe.metric = "distance"
    /\ probe.value > probe.range.min * Q
    /\ probe.value < probe.range.max * Q
    /\ ~Constant(probe.history)
    /\ probe.hook = Points(100)
    /\ probe.calc > 0
    /\ probe.calc < Points(100)

\* C9: for a value outside the ideal range every per-metric score lies in
\* [0, 100] and does not increase with the distance to the nearest bound;
\* the angle score is max(0, 100 - 2 x degrees outside).
C9_OutsideScores ==
    (probe.evaluated /\ ~Inside(probe.value, probe.range)) =>
        /\ probe.hook >= 0 /\ probe.hook <= Points(100)
        /\ probe.calc >= 0 /\ probe.calc <= Points(100)
        /\ (~Inside(probe.other, probe.range)
              /\ DistanceOutside(probe.value, probe.range)
                   <= DistanceOutside(probe.other, probe.range))
            => /\ probe.hook >= probe.hookOther
               /\ probe.calc >= probe.calcOther
        /\ probe.metric = "angle" =>
              /\ probe.hook * Q
                   = Max(0, Points(100) * Q
                              - 2 * P * DistanceOutside(probe.value, probe.range))
              /\ probe.calc = probe.hook

\* C9 witness: a MIG angle 15 degrees above the range scores 70, and an
\* angle further out scores 0.
C9_Witness ==
    /\ probe.evaluated
    /\ probe.metric = "angle"
    /\ probe.technique = "MIG"
    /\ probe.value = (80 + 15) * Q
    /\ probe.hook = Points(70)
    /\ probe.calc = Points(70)
    /\ probe.other > probe.value
    /\ probe.hookOther = 0

-----------------------------------------------------------------------------
(* The steady MIG session: every sample reads angle 75, distance 12 and    *)
(* speed 10, and all samples of a session carry the same acceleration, so  *)
(* that the jerk between them is zero.                                     *)

\* speed = |magnitude - 9.8|: the accelerations the hook reads as speed 10
\* have magnitude 19.8.
SteadyAccelInputs == {<<0, 0, 198>>, <<198, 0, 0>>, <<0, -198, 0>>}

\* angle = |beta|
SteadyBetaInputs == {750, -750}

\* distance = markerData.position.z
SteadyMarker == [position |-> [z |-> 120]]

\* The acceleration does not change between consecutive samples.
ZeroJerk(accel) ==
    (currentSession # NULL /\ Len(currentSession.sensorData) > 0)
        => accel = currentSession.sensorData[Len(currentSession.sensorData)].acceleration

SteadyStart == startSession("MIG")

SteadyUpdate ==
    /\ currentSession # NULL => Len(currentSession.sensorData) < MaxSamples
    /\ \E a \in SteadyAccelInputs, b \in SteadyBetaInputs :
          /\ ZeroJerk(a)
          /\ updateSession([acceleration |-> a, gyroscope |-> [beta |-> b],
                            timestamp |-> now], SteadyMarker)

SteadyNext == SteadyStart \/ Stop \/ SteadyUpdate \/ Tick

SteadySpec == Init /\ [][SteadyNext]_vars

\* C11: in the steady MIG session every sample's angle, distance, speed and
\* smoothness score is 100, every stored qualityScore is 100, and the
\* stopped session has final score 100 and grade A.
C11_SteadySessionScoresFull ==
    currentSession # NULL =>
        /\ \A i \in 1..Len(currentSession.metrics) :
             LET sc == SampleScores(currentSession.sensorData[i], SteadyMarker,
                                    currentSession.parameters)
             IN  /\ sc.currentAngle = 75 * Q
                 /\ sc.currentDistance = 12 * Q
                 /\ sc.currentSpeed = 10 * Q
                 /\ sc.angleScore = Points(100)
                 /\ sc.distanceScore = Points(100)
                 /\ sc.speedScore = Points(100)
                 /\ sc.smoothnessScore = Points(100)
                 /\ currentSession.metrics[i].qualityScore = Points(100)
        /\ (currentSession.endTime # NoTime /\ Len(currentSession.metrics) > 0)
             => /\ currentSession.finalScore.num
                     = Points(100) * currentSession.finalScore.den
                /\ currentSession.grade = "A"

-----------------------------------------------------------------------------
(* The marker tracker of patternRecognition.ts.  A pattern carries its     *)
(* centre in hundredths of a pixel, its confidence in hundredths and its   *)
(* timestamp in milliseconds.                                              *)

\* Patterns in one call of smoothPatterns.
MaxPatterns == 3

\* Frames one estimate is tracked through.
MaxFrames == 2

\* hundredths of a pixel
PX == Q * Q

\* maxAge: number = 5000
MAX_AGE == 5000

\* minConfidence: number = 0.5, in hundredths
MIN_CONFIDENCE == 50

\* if (movement > 50), in pixels
JUMP_THRESHOLD == 50

\* Array.prototype.filter
RECURSIVE Filter(_, _, _)
Filter(seq, keep, i) ==
    IF i > Len(seq) THEN <<>>
    ELSE IF i \in keep THEN <<seq[i]>> \o Filter(seq, keep, i + 1)
    ELSE Filter(seq, keep, i + 1)

\* One element put into a list sorted by falling confidence, behind the
\* elements that compare equal to it (Array.prototype.sort is stable).
RECURSIVE InsertByConfidence(_, _)
InsertByConfidence(p, sorted) ==
    IF sorted = <<>> THEN <<p>>
    ELSE IF Head(sorted).confidence - p.confidence < 0
         THEN <<p>> \o sorted
         ELSE <<Head(sorted)>> \o InsertByConfidence(p, Tail(sorted))

\* .sort((a, b) => b.confidence - a.confidence)
RECURSIVE SortByConfidence(_, _)
SortByConfidence(seq, n) ==
    IF n = 0 THEN <<>>
    ELSE InsertByConfidence(seq[n], SortByConfidence(seq, n - 1))

\* .slice(0, 1)
SliceFirst(seq) == IF seq = <<>> THEN <<>> ELSE <<seq[1]>>

\* (now - pattern.timestamp) < maxAge && pattern.confidence >= minConfidence
Passing(patterns, maxAge, minConfidence, clock) ==
    {i \in 1..Len(patterns) :
        /\ (clock - patterns[i].timestamp) < maxAge
        /\ patterns[i].confidence >= minConfidence}

\* smoothPatterns taking the first pattern that passes the filter.
smoothPatterns_NoSort(patterns, maxAge, minConfidence, clock) ==
    SliceFirst(Filter(patterns, Passing(patterns, maxAge, minConfidence, clock), 1))

smoothPatterns(patterns, maxAge, minConfidence, clock) ==
    LET kept == Filter(patterns, Passing(patterns, maxAge, minConfidence, clock), 1)
    IN  SliceFirst(SortByConfidence(kept, Len(kept)))

\* dx * dx + dy * dy
MovementSquared(a, b) ==
    (b.x - a.x) * (b.x - a.x) + (b.y - a.y) * (b.y - a.y)

\* Math.sqrt(dx * dx + dy * dy) > 50, decided on the squares: the square
\* root is increasing and Math.sqrt(2500) is 50.
MovementAbove(a, b, pixels) ==
    MovementSquared(a, b) > (pixels * PX) * (pixels * PX)

\* The blend taken from the candidate's side: curr + (prev - curr) * 0.3.
smoothedCenter_TowardsPrevious(prev, curr) ==
    [x |-> curr.x + ((prev.x - curr.x) * 3) \div 10,
     y |-> curr.y + ((prev.y - curr.y) * 3) \div 10]

\* prev + (curr - prev) * smoothingFactor, smoothingFactor = 0.3
smoothedCenter(prev, curr) ==
    [x |-> prev.x + ((curr.x - prev.x) * 3) \div 10,
     y |-> prev.y + ((curr.y - prev.y) * 3) \div 10]

\* trackPatternMovement returning the candidate from 50 pixels on.
trackPatternMovement_JumpAtThreshold(previousPatterns, currentPatterns) ==
    IF previousPatterns = <<>> \/ currentPatterns = <<>>
    THEN IF currentPatterns = <<>> THEN NULL ELSE currentPatterns[1]
    ELSE LET prevPattern == previousPatterns[1]
             currPattern == currentPatterns[1]
         IN  IF MovementSquared(prevPattern.center, currPattern.center)
                    >= (JUMP_THRESHOLD * PX) * (JUMP_THRESHOLD * PX)
             THEN currPattern
             ELSE [currPattern EXCEPT
                      !.center = smoothedCenter(prevPattern.center, currPattern.center)]

trackPatternMovement(previousPatterns, currentPatterns) ==
    IF previousPatterns = <<>> \/ currentPatterns = <<>>
    THEN IF currentPatterns = <<>> THEN NULL ELSE currentPatterns[1]
    ELSE LET prevPattern == previousPatterns[1]
             currPattern == currentPatterns[1]
         IN  IF MovementAbove(prevPattern.center, currPattern.center, JUMP_THRESHOLD)
             THEN currPattern
             ELSE [currPattern EXCEPT
                      !.center = smoothedCenter(prevPattern.center, currPattern.center)]

\* The return trackPatternMovement takes.
TrackBranch(previousPatterns, currentPatterns) ==
    IF previousPatterns = <<>> \/ currentPatterns = <<>> THEN "first"
    ELSE IF MovementAbove(previousPatterns[1].center, currentPatterns[1].center,
                          JUMP_THRESHOLD)
    THEN "jump"
    ELSE "blend"

\* A detected square of the given half side around a centre.
SquarePattern(center, half, confidence, timestamp) ==
    [corners    |-> <<[x |-> center.x - half, y |-> center.y - half],
                      [x |-> center.x + half, y |-> center.y - half],
                      [x |-> center.x - half, y |-> center.y + half],
                      [x |-> center.x + half, y |-> center.y + half]>>,
     center     |-> center,
     size       |-> Sqrt(2 * half * half),
     confidence |-> confidence,
     timestamp  |-> timestamp]

\* The middle of the 640 x 480 frame.
FrameCentre == [x |-> 320 * PX, y |-> 240 * PX]

\* Patterns of several ages and confidences, at two places.
SmoothInputs(clock) ==
    {SquarePattern([x |-> FrameCentre.x + dx * PX, y |-> FrameCentre.y],
                   20 * PX, confidence, clock - age) :
        dx \in {0, 100},
        confidence \in {MIN_CONFIDENCE - 1, MIN_CONFIDENCE, 80},
        age \in {MAX_AGE - 1, MAX_AGE}}

\* Pixels between the previous estimate and the candidate, on each axis.
TrackOffsets == {-60, -50, -40, -30, 0, 30, 40, 50, 60}

\* Previous estimates around the candidate, or none.
PreviousInputs ==
    {<<>>} \cup
    {<<SquarePattern([x |-> FrameCentre.x + dx * PX, y |-> FrameCentre.y + dy * PX],
                     20 * PX, 80, MAX_AGE)>> :
        dx \in TrackOffsets, dy \in TrackOffsets}

\* The candidates of a frame: none, or one at the middle of the frame.
CurrentInputs == {<<>>, <<SquarePattern(FrameCentre, 20 * PX, 90, MAX_AGE + 1)>>}

TrackerInit ==
    /\ currentTechnique = "MIG"
    /\ isRecording = FALSE
    /\ currentSession = NULL
    /\ currentMetrics = NULL
    /\ sessionStartTime = NoTime
    /\ now = 1
    /\ lastOp = "init"
    /\ lastResult = NULL
    /\ \/ \E n \in 0..MaxPatterns, clock \in {MAX_AGE, MAX_AGE + 1} :
            \E patterns \in [1..n -> SmoothInputs(clock)] :
                probe = [kind |-> "smooth", patterns |-> patterns,
                         clock |-> clock, evaluated |-> FALSE]
       \/ \E previous \in PreviousInputs, current \in CurrentInputs :
            probe = [kind |-> "track", initial |-> previous,
                     previous |-> previous, current |-> current, frames |-> 0]

\* One call of smoothPatterns with its default parameters.
SmoothCall ==
    /\ probe.kind = "smooth" /\ ~probe.evaluated
    /\ probe' = [kind |-> "smooth", patterns |-> probe.patterns,
                 clock |-> probe.clock, evaluated |-> TRUE,
                 result |-> smoothPatterns(probe.patterns, MAX_AGE,
                                           MIN_CONFIDENCE, probe.clock)]
    /\ UNCHANGED hookVars

\* One frame: the tracker's output becomes the previous estimate of the
\* next frame.
TrackFrame ==
    /\ probe.kind = "track" /\ probe.frames < MaxFrames
    /\ LET output == trackPatternMovement(probe.previous, probe.current)
       IN  probe' = [kind |-> "track", initial |-> probe.initial,
                     previous |-> IF output = NULL THEN <<>> ELSE <<output>>,
                     current |-> probe.current, frames |-> probe.frames + 1,
                     before |-> probe.previous,
                     branch |-> TrackBranch(probe.previous, probe.current),
                     output |-> output]
    /\ UNCHANGED hookVars

TrackerNext == SmoothCall \/ TrackFrame

TrackerSpec == TrackerInit /\ [][TrackerNext]_vars

\* C12: smoothPatterns returns at most one pattern; it returns one exactly
\* when some input is younger than 5 seconds with confidence at least 0.5;
\* the returned pattern is one of those inputs and none of them has a
\* strictly higher confidence.
C12_SmoothKeepsBestPassing ==
    (probe.kind = "smooth" /\ probe.evaluated) =>
        LET passing == {i \in 1..Len(probe.patterns) :
                          /\ probe.clock - probe.patterns[i].timestamp < 5000
                          /\ probe.patterns[i].confidence >= 50}
        IN  /\ Len(probe.result) <= 1
            /\ Len(probe.result) = 1 <=> passing # {}
            /\ Len(probe.result) = 1 =>
                 /\ \E i \in passing : probe.result[1] = probe.patterns[i]
                 /\ \A j \in passing :
                       probe.patterns[j].confidence <= probe.result[1].confidence

\* A call whose first passing input is not the best one, with an input
\* that is too old.
C12_Witness ==
    /\ probe.kind = "smooth" /\ probe.evaluated
    /\ Len(probe.patterns) = 3
    /\ probe.patterns[1].confidence = 50
    /\ probe.clock - probe.patterns[1].timestamp < 5000
    /\ probe.patterns[2].confidence = 80
    /\ probe.clock - probe.patterns[2].timestamp = 5000
    /\ probe.patterns[3].confidence = 80
    /\ probe.clock - probe.patterns[3].timestamp < 5000
    /\ probe.result = <<probe.patterns[3]>>

\* The candidate with the centre 0.3 of the way from the previous one.
Blended(prev, cand) ==
    [cand EXCEPT !.center =
        [x |-> prev.center.x + (3 * (cand.center.x - prev.center.x)) \div 10,
         y |-> prev.center.y + (3 * (cand.center.y - prev.center.y)) \div 10]]

\* A call of trackPatternMovement with a previous estimate and a candidate.
TrackedWithPrevious ==
    probe.kind = "track" /\ probe.frames > 0
        /\ probe.before # <<>> /\ probe.current # <<>>

C14_TrackedEstimateConverges ==
    (probe.kind = "track" /\ probe.frames > 0
        /\ probe.initial # <<>> /\ probe.current # <<>>
        /\ MovementSquared(probe.initial[1].center, probe.current[1].center)
              < (50 * PX) * (50 * PX)) =>
        LET c == probe.current[1].center
            b == probe.before[1].center
            o == probe.output.center
        IN  /\ probe.branch = "blend"
            /\ 10 * (o.x - c.x) = 7 * (b.x - c.x)
            /\ 10 * (o.y - c.y) = 7 * (b.y - c.y)
            /\ MovementSquared(o, c) <= MovementSquared(b, c)

\* The second frame of an estimate that began off the candidate.
C14_Witness ==
    /\ probe.kind = "track" /\ probe.frames > 1
    /\ probe.initial # <<>> /\ probe.current # <<>>
    /\ MovementSquared(probe.initial[1].center, probe.current[1].center)
          < (50 * PX) * (50 * PX)
    /\ MovementSquared(probe.initial[1].center, probe.current[1].center) > 0
    /\ probe.branch = "blend"
    /\ probe.before # probe.initial
    /\ probe.output.center # probe.current[1].center

-----------------------------------------------------------------------------
(* The pattern detector of patternRecognition.ts.  An image is its width,  *)
(* its height and the colour <<R, G, B>> of each pixel, indexed from 0 row *)
(* by row (the alpha byte is not read).  Corner points are whole pixels;   *)
(* lengths are in hundredths of a pixel, the three scores of a square in   *)
(* thousandths and its confidence in hundredths.                           *)

\* Width and height of the images that are scanned pixel by pixel.
MaxDim == 5

\* threshold: number = 100
THRESHOLD == 100

\* minSize: number = 20
MIN_SIZE == 20

\* if (points.length !== 4) return false
SQUARE_CORNERS == 4

\* Math.round(0.299 * R + 0.587 * G + 0.114 * B)
Gray(colour) == (299 * colour[1] + 587 * colour[2] + 114 * colour[3] + 500) \div 1000

\* grayData
GrayData(imageData) == [i \in DOMAIN imageData.data |-> Gray(imageData.data[i])]

\* The eight neighbours (kx, ky) of the 3 x 3 kernel.
Kernel == <<<<-1, -1>>, <<0, -1>>, <<1, -1>>, <<-1, 0>>,
            <<1, 0>>, <<-1, 1>>, <<0, 1>>, <<1, 1>>>>

\* varianceSum: the sum of |centerValue - neighborValue| over the kernel
VarianceSum(grayData, width, x, y) ==
    SumOver([n \in 1..Len(Kernel) |->
                Abs(grayData[y * width + x]
                      - grayData[(y + Kernel[n][2]) * width + (x + Kernel[n][1])])],
            Len(Kernel))

\* The corner test with the comparison turned round.
IsCorner_BelowThreshold(grayData, width, x, y, threshold) ==
    VarianceSum(grayData, width, x, y) < threshold * Len(Kernel)

\* averageGradient = varianceSum / 8;  averageGradient > threshold
IsCorner(grayData, width, x, y, threshold) ==
    VarianceSum(grayData, width, x, y) > threshold * Len(Kernel)

RECURSIVE ScanCorners(_, _, _, _, _)
\* The two loops over the pixels off the border, row by row from pixel idx.
ScanCorners(grayData, width, height, threshold, idx) ==
    IF idx >= width * height THEN <<>>
    ELSE LET x    == idx % width
             y    == idx \div width
             rest == ScanCorners(grayData, width, height, threshold, idx + 1)
         IN  IF /\ x >= 1 /\ x < width - 1
                /\ y >= 1 /\ y < height - 1
                /\ IsCorner(grayData, width, x, y, threshold)
             THEN <<[x |-> x, y |-> y]>> \o rest
             ELSE rest

findCornerPoints(grayData, width, height, threshold) ==
    ScanCorners(grayData, width, height, threshold, 0)

\* Math.sqrt(dx * dx + dy * dy) between two corner points
Distance(a, b) ==
    Sqrt(((a.x - b.x) * (a.x - b.x) + (a.y - b.y) * (a.y - b.y)) * PX * PX)

RECURSIVE InsertAscending(_, _)
InsertAscending(v, sorted) ==
    IF sorted = <<>> THEN <<v>>
    ELSE IF v - Head(sorted) < 0
         THEN <<v>> \o sorted
         ELSE <<Head(sorted)>> \o InsertAscending(v, Tail(sorted))

RECURSIVE SortAscending(_, _)
\* distances.sort((a, b) => a - b)
SortAscending(seq, n) ==
    IF n = 0 THEN <<>> ELSE InsertAscending(seq[n], SortAscending(seq, n - 1))

\* The distances between all pairs of the four points, sorted.
SortedDistances(points) ==
    SortAscending(<<Distance(points[1], points[2]), Distance(points[1], points[3]),
                    Distance(points[1], points[4]), Distance(points[2], points[3]),
                    Distance(points[2], points[4]), Distance(points[3], points[4])>>, 6)

\* avgSide: the mean of the four smallest distances
AvgSide(distances) ==
    (distances[1] + distances[2] + distances[3] + distances[4]) \div 4

\* sideVariance, in squares of a hundredth of a pixel
SideVariance(distances) ==
    LET avgSide == AvgSide(distances)
    IN  ((distances[1] - avgSide) * (distances[1] - avgSide)
           + (distances[2] - avgSide) * (distances[2] - avgSide)
           + (distances[3] - avgSide) * (distances[3] - avgSide)
           + (distances[4] - avgSide) * (distances[4] - avgSide)) \div 4

\* isValidSquare; x / y > 0.2 is written 5 * x > y, and a quotient by zero
\* (NaN) fails every comparison.
isValidSquare(points, minSize) ==
    IF Len(points) # SQUARE_CORNERS THEN FALSE
    ELSE LET distances   == SortedDistances(points)
             avgSide     == AvgSide(distances)
             sideCV5     == 5 * Sqrt(SideVariance(distances))
             avgDiagonal == (distances[5] + distances[6]) \div 2
             expectedDiagonal == Sqrt(2 * avgSide * avgSide)
         IN  IF (avgSide > 0 /\ sideCV5 > avgSide) \/ avgSide < minSize * PX
             THEN FALSE
             ELSE IF avgDiagonal > 0 /\ 5 * Abs(distances[5] - distances[6]) > avgDiagonal
             THEN FALSE
             ELSE /\ expectedDiagonal > 0
                  /\ 10 * avgDiagonal > 8 * expectedDiagonal
                  /\ 10 * avgDiagonal < 16 * expectedDiagonal

\* sumX and sumY of the corners
CornerSum(corners) ==
    [x |-> SumOver([i \in 1..Len(corners) |-> corners[i].x], Len(corners)),
     y |-> SumOver([i \in 1..Len(corners) |-> corners[i].y], Len(corners))]

\* calculateCenter, in hundredths of a pixel
calculateCenter(corners) ==
    [x |-> (CornerSum(corners).x * PX) \div Len(corners),
     y |-> (CornerSum(corners).y * PX) \div Len(corners)]

\* calculateSize: the mean distance of the corners from their centre
calculateSize(corners) ==
    LET n   == Len(corners)
        sum == CornerSum(corners)
    IN  SumOver([i \in 1..n |->
                    Sqrt((((n * corners[i].x - sum.x) * (n * corners[i].x - sum.x)
                            + (n * corners[i].y - sum.y) * (n * corners[i].y - sum.y))
                          * PX * PX) \div (n * n))], n) \div n

\* sizeScore = Math.min(size / 100, 1.0), in thousandths
SizeScore(points) == Min(calculateSize(points) \div 10, 1000)

\* centerScore = 1.0 - (|center.x - 320| + |center.y - 240|) / 800, in
\* thousandths
CenterScore(points) ==
    LET n   == Len(points)
        sum == CornerSum(points)
    IN  1000 - ((Abs(sum.x - n * 320) + Abs(sum.y - n * 240)) * 1000) \div (n * 800)

\* regularityScore = Math.max(0, 1.0 - sideVariance / avgSide), in thousandths
RegularityScore(points) ==
    LET distances == SortedDistances(points)
    IN  Max(0, 1000 - (SideVariance(distances) * 10) \div AvgSide(distances))

\* sizeScore * 0.3 + centerScore * 0.3 + regularityScore * 0.4, in hundredths
calculateSquareConfidence(points) ==
    (3 * SizeScore(points) + 3 * CenterScore(points)
        + 4 * RegularityScore(points)) \div 100

\* Math.min(square.confidence, 1.0)
calculateConfidence(square) == Min(square.confidence, 100)

RECURSIVE Quads(_, _, _, _, _)
\* The index quadruples i < j < k < l among n corners, in the order of the
\* four nested loops.
Quads(n, i, j, k, l) ==
    IF i > n - 3 THEN <<>>
    ELSE IF j > n - 2 THEN Quads(n, i + 1, i + 2, i + 3, i + 4)
    ELSE IF k > n - 1 THEN Quads(n, i, j + 1, j + 2, j + 3)
    ELSE IF l > n THEN Quads(n, i, j, k + 1, k + 2)
    ELSE <<<<i, j, k, l>>>> \o Quads(n, i, j, k, l + 1)

groupCornersIntoSquares(corners, width, height, minSize) ==
    LET quads      == Quads(Len(corners), 1, 2, 3, 4)
        potential  == [q \in 1..Len(quads) |->
                          <<corners[quads[q][1]], corners[quads[q][2]],
                            corners[quads[q][3]], corners[quads[q][4]]>>]
        valid      == Filter(potential,
                             {q \in 1..Len(quads) : isValidSquare(potential[q], minSize)}, 1)
        squares    == [s \in 1..Len(valid) |->
                          [corners |-> valid[s],
                           confidence |-> calculateSquareConfidence(valid[s])]]
    IN  SortByConfidence(squares, Len(squares))

\* squares.map(square => ({corners, center, size, confidence, timestamp}))
PatternsOf(squares, clock) ==
    [s \in 1..Len(squares) |->
        [corners    |-> squares[s].corners,
         center     |-> calculateCenter(squares[s].corners),
         size       |-> calculateSize(squares[s].corners),
         confidence |-> calculateConfidence(squares[s]),
         timestamp  |-> clock]]

detectSquarePatterns(imageData, threshold, minSize, clock) ==
    LET cornerPoints == findCornerPoints(GrayData(imageData), imageData.width,
                                         imageData.height, threshold)
        squares      == groupCornersIntoSquares(cornerPoints, imageData.width,
                                                imageData.height, minSize)
    IN  PatternsOf(squares, clock)

\* Pixel colours <<R, G, B>>.
Black == <<0, 0, 0>>

White == <<255, 255, 255>>

Red == <<255, 0, 0>>

\* An image of one colour with some pixels (spots) of another.
Image(width, height, background, spots, spotColour) ==
    [width  |-> width,
     height |-> height,
     data   |-> [i \in 0..(width * height - 1) |->
                    IF i \in spots THEN spotColour ELSE background]]

\* Background and spot colour: spots that make corners, spots that do not.
SpotColourings == {<<Black, White>>, <<Red, Black>>}

\* The colours of the uniform images.
UniformColourings == {<<Black, Black>>, <<White, White>>, <<Red, Red>>}

\* The pixels off the border, where a corner point can be found.
InnerPixels(width, height) ==
    {i \in 0..(width * height - 1) :
        /\ i % width >= 1 /\ i % width < width - 1
        /\ i \div width >= 1 /\ i \div width < height - 1}

\* The next of up to four spots, chosen in falling order: a pixel before
\* the last one chosen, or -1 for none.
SpotsBefore(a, pixels) == {v \in pixels \cup {-1} : v = -1 \/ v < a}

\* Frames of the camera: the reference size and a larger one.
FrameSizes == {[width |-> 640, height |-> 480], [width |-> 1920, height |-> 1080]}

\* Width and height of the rectangles whose corners are found in a frame.
RectSides == {<<20, 20>>, <<20, 60>>, <<30, 40>>, <<100, 130>>, <<150, 150>>}

\* The four corners of a rectangle, in the order of the scan.
RectCorners(left, top, sides) ==
    <<[x |-> left, y |-> top], [x |-> left + sides[1], y |-> top],
      [x |-> left, y |-> top + sides[2]],
      [x |-> left + sides[1], y |-> top + sides[2]]>>

\* Places on one axis: at the first pixel off the border, in the middle,
\* at the last pixel off the border.
Places(extent, side) == {1, (extent - side) \div 2, extent - 2 - side}

DetectInit ==
    /\ currentTechnique = "MIG"
    /\ isRecording = FALSE
    /\ currentSession = NULL
    /\ currentMetrics = NULL
    /\ sessionStartTime = NoTime
    /\ now = 1
    /\ lastOp = "init"
    /\ lastResult = NULL
    /\ \/ \E width \in 0..MaxDim, height \in 0..MaxDim, minSize \in {2, MIN_SIZE} :
          \E a \in SpotsBefore(width * height, InnerPixels(width, height)) :
          \E b \in SpotsBefore(a, InnerPixels(width, height)) :
          \E c \in SpotsBefore(b, InnerPixels(width, height)) :
          \E d \in SpotsBefore(c, InnerPixels(width, height)) :
          \E colours \in IF a = -1 THEN UniformColourings ELSE SpotColourings :
              probe = [kind |-> "image",
                       imageData |-> Image(width, height, colours[1],
                                           {a, b, c, d} \ {-1}, colours[2]),
                       minSize |-> minSize, evaluated |-> FALSE]
       \/ \E frame \in FrameSizes, sides \in RectSides :
          \E left \in Places(frame.width, sides[1]),
             top \in Places(frame.height, sides[2]) :
              probe = [kind |-> "frame", width |-> frame.width,
                       height |-> frame.height,
                       cornerPoints |-> RectCorners(left, top, sides),
                       minSize |-> MIN_SIZE, evaluated |-> FALSE]

\* detectSquarePatterns on an image, with the default threshold.
DetectImage ==
    /\ probe.kind = "image" /\ ~probe.evaluated
    /\ probe' = [kind |-> "image", imageData |-> probe.imageData,
                 minSize |-> probe.minSize, evaluated |-> TRUE,
                 cornerPoints |-> findCornerPoints(GrayData(probe.imageData),
                                     probe.imageData.width, probe.imageData.height,
                                     THRESHOLD),
                 result |-> detectSquarePatterns(probe.imageData, THRESHOLD,
                                                 probe.minSize, now)]
    /\ UNCHANGED hookVars

\* detectSquarePatterns on a camera frame in which findCornerPoints finds
\* the given corner points (single bright pixels on a dark ground).
DetectFrame ==
    /\ probe.kind = "frame" /\ ~probe.evaluated
    /\ probe' = [kind |-> "frame", width |-> probe.width, height |-> probe.height,
                 cornerPoints |-> probe.cornerPoints,
                 minSize |-> probe.minSize, evaluated |-> TRUE,
                 result |-> PatternsOf(groupCornersIntoSquares(probe.cornerPoints,
                                           probe.width, probe.height, probe.minSize),
                                       now)]
    /\ UNCHANGED hookVars

DetectNext == DetectImage \/ DetectFrame

DetectSpec == DetectInit /\ [][DetectNext]_vars

\* All pixels of the image have the same colour.
UniformImage(imageData) ==
    \A i \in DOMAIN imageData.data : imageData.data[i] = imageData.data[0]

\* C15: detectSquarePatterns returns the empty list, without throwing,
\* whenever fewer than four corner candidates are found; that is the case
\* for every image of one colour and for every image of zero width or
\* zero height.
C15_FewCornersGiveNoPattern ==
    (probe.kind = "image" /\ probe.evaluated) =>
        /\ Len(probe.cornerPoints) < 4 => probe.result = <<>>
        /\ UniformImage(probe.imageData) =>
              Len(probe.cornerPoints) < 4 /\ probe.result = <<>>
        /\ (probe.imageData.width = 0 \/ probe.imageData.height = 0) =>
              Len(probe.cornerPoints) < 4 /\ probe.result = <<>>

\* A white image large enough to hold a square of the least size asked
\* for, scanned without a pattern.
C15_Witness ==
    /\ probe.kind = "image" /\ probe.evaluated
    /\ probe.imageData.width = MaxDim /\ probe.imageData.height = MaxDim
    /\ UniformImage(probe.imageData)
    /\ probe.imageData.data[0] = White
    /\ probe.minSize = 2
    /\ probe.cornerPoints = <<>>
    /\ probe.result = <<>>

\* C16: every pattern detectSquarePatterns returns has a confidence in
\* [0, 1], in frames of every size and for every place of the square.
C16_ConfidenceInUnitInterval ==
    (probe.kind \in {"image", "frame"} /\ probe.evaluated) =>
        \A s \in 1..Len(probe.result) :
            probe.result[s].confidence >= 0 /\ probe.result[s].confidence <= 100

-----------------------------------------------------------------------------
(* The session hook called with any string as technique: the type          *)
(* WeldingType is erased at run time, and the Simulator casts the value of *)
(* its select element to it.                                               *)

\* Identifiers outside MIG, TIG and ELECTRODO.
UnknownTechniques == {"PLASMA"}

StartAny == \E technique \in WeldingType \cup UnknownTechniques : startSession(technique)

LooseNext == StartAny \/ Stop \/ Update \/ Tick

LooseSpec == Init /\ [][LooseNext]_vars

\* C17: starting a session with a technique outside MIG, TIG and ELECTRODO
\* fails fast: no session is created for it and isRecording stays false,
\* so no Recording session has missing parameters.
C17_UnknownTechniqueFailsFast ==
    /\ currentSession # NULL => currentSession.technique \in WeldingType
    /\ (isRecording /\ currentSession # NULL) => currentSession.parameters # NULL
    /\ currentTechnique \in WeldingType

-----------------------------------------------------------------------------
(* The angle of the metric calculator (weldingCalculations). *)

\* calculateAngle: |beta|, a value above 180 replaced by 360 - value
calculateAngle(sensorData) ==
    LET beta      == sensorData.gyroscope.beta
        absolute  == IF beta < 0 THEN Abs(beta) ELSE beta
        folded    == IF absolute > 180 * Q THEN 360 * Q - absolute ELSE absolute
    IN  Abs(folded)

\* C19: the completed session stopSession returns has duration equal to
\* its endTime minus its startTime, and not below 0, however the clock
\* advances between the clock reads of startSession and stopSession.
C19_DurationIsEndMinusStart ==
    (lastOp = "stop" /\ lastResult # NULL) =>
        /\ lastResult.duration = lastResult.endTime - lastResult.startTime
        /\ lastResult.duration >= 0

\* C20: the angle an update scores and stores is the normalized angle
\* (|beta|, above 180 replaced by 360 - value), which lies in [0, 180] for
\* every beta in [-360, 360].
C20_StoredAngleIsNormalized ==
    currentSession # NULL =>
        \A i \in 1..Len(currentSession.metrics) :
            /\ Abs(currentSession.sensorData[i].gyroscope.beta) <= 360 * Q
                 => /\ currentSession.metrics[i].currentAngle >= 0
                    /\ currentSession.metrics[i].currentAngle <= 180 * Q
            /\ currentSession.metrics[i].currentAngle
                 = calculateAngle(currentSession.sensorData[i])

-----------------------------------------------------------------------------
(* The validation code of certificateUtils.ts.  A string is the sequence   *)
(* of its characters; scores are in tenths of a point.                     *)

\* Characters in a user name.
MaxNameLen == 3

\* The digits of Number.prototype.toString(36)
Lower36 == <<"0", "1", "2", "3", "4", "5", "6", "7", "8", "9", "a", "b", "c",
             "d", "e", "f", "g", "h", "i", "j", "k", "l", "m", "n", "o", "p",
             "q", "r", "s", "t", "u", "v", "w", "x", "y", "z">>

\* and their upper case
Upper36 == <<"0", "1", "2", "3", "4", "5", "6", "7", "8", "9", "A", "B", "C",
             "D", "E", "F", "G", "H", "I", "J", "K", "L", "M", "N", "O", "P",
             "Q", "R", "S", "T", "U", "V", "W", "X", "Y", "Z">>

\* String.prototype.toUpperCase
ToUpperCase(s) ==
    [i \in 1..Len(s) |->
        IF \E k \in 1..Len(Lower36) : Lower36[k] = s[i]
        THEN Upper36[CHOOSE k \in 1..Len(Lower36) : Lower36[k] = s[i]]
        ELSE s[i]]

\* String.prototype.substring(start, end), 0 <= start <= end
Substring(s, start, end) == SubSeq(s, start + 1, Min(end, Len(s)))

\* String.prototype.charAt(index): the empty string past the end
CharAt(s, index) == IF index + 1 <= Len(s) THEN <<s[index + 1]>> ELSE <<>>

RECURSIVE ToString36(_)
\* Number.prototype.toString(36) of a whole number >= 0
ToString36(n) ==
    IF n < Len(Lower36) THEN <<Lower36[n + 1]>>
    ELSE ToString36(n \div Len(Lower36)) \o <<Lower36[(n % Len(Lower36)) + 1]>>

\* String.prototype.charCodeAt of the characters of the names
CharCode(char) ==
    CASE char = "A" -> 65
      [] char = "a" -> 97
      [] char = "n" -> 110

\* ((hash << 5) - hash) + char, then hash & hash: 31 * hash + char in 32
\* bits, two's complement, worked on the two 16-bit halves of hash.
HashStep(hash, char) ==
    LET low   == hash % 65536
        high  == hash \div 65536
        sum   == 31 * low + char
        upper == 31 * high + (sum \div 65536)
    IN  (((upper + 32768) % 65536) - 32768) * 65536 + (sum % 65536)

RECURSIVE HashLoop(_, _)
\* The loop of simpleHash over the first i characters.
HashLoop(str, i) ==
    IF i = 0 THEN 0 ELSE HashStep(HashLoop(str, i - 1), CharCode(str[i]))

simpleHash(str) == Abs(HashLoop(str, Len(str)))

\* codes[technique] || 'U'
getTechniqueCode(technique) ==
    CASE technique = "MIG" -> <<"M">>
      [] technique = "TIG" -> <<"T">>
      [] technique = "ELECTRODO" -> <<"E">>
      [] OTHER -> <<"U">>

getScoreCode(score) ==
    IF score >= 95 * Q THEN <<"A", "+">>
    ELSE IF score >= 90 * Q THEN <<"A">>
    ELSE IF score >= 80 * Q THEN <<"B">>
    ELSE IF score >= 70 * Q THEN <<"C">>
    ELSE IF score >= 60 * Q THEN <<"D">>
    ELSE <<"F">>

\* Math.random().toString(36): "0" for 0, else "0." and the digits of the
\* fraction
RandomString(fraction) ==
    IF fraction = <<>> THEN <<"0">> ELSE <<"0", ".">> \o fraction

\* `${prefix}-${userHash}${techCode}${scoreCode}-${dateCode}-${randomCode}`;
\* dateCode is the day of the call as yyyymmdd, fraction the digits of
\* Math.random() in base 36.
generateValidationCode(userName, technique, score, dateCode, fraction) ==
    LET prefix     == <<"W", "E", "L", "D">>
        userHash   == ToUpperCase(Substring(ToString36(simpleHash(userName)), 0, 4))
        techCode   == getTechniqueCode(technique)
        scoreCode  == getScoreCode(score)
        randomCode == ToUpperCase(Substring(RandomString(fraction), 2, 6))
    IN  prefix \o <<"-">> \o userHash \o techCode \o scoreCode
          \o <<"-">> \o dateCode \o <<"-">> \o randomCode

\* [0-9]
DigitChars == {Upper36[k] : k \in 1..10}

\* [A-Z0-9]
UpperOrDigitChars == {Upper36[k] : k \in 1..Len(Upper36)}

\* /^WELD-[A-Z0-9]{6}-[0-9]{8}-[A-Z0-9]{4}$/
validateCertificateCode(code) ==
    /\ Len(code) = 25
    /\ SubSeq(code, 1, 5) = <<"W", "E", "L", "D", "-">>
    /\ \A i \in 6..11 : code[i] \in UpperOrDigitChars
    /\ code[12] = "-"
    /\ \A i \in 13..20 : code[i] \in DigitChars
    /\ code[21] = "-"
    /\ \A i \in 22..25 : code[i] \in UpperOrDigitChars

RECURSIVE Split(_, _)
\* String.prototype.split(separator)
Split(s, separator) ==
    IF \A i \in 1..Len(s) : s[i] # separator THEN <<s>>
    ELSE LET first == CHOOSE i \in 1..Len(s) :
                         s[i] = separator /\ \A j \in 1..(i - 1) : s[j] # separator
         IN  <<SubSeq(s, 1, first - 1)>> \o Split(SubSeq(s, first + 1, Len(s)), separator)

\* techniques[code] || 'UNKNOWN'
getTechniqueFromCode(code) ==
    CASE code = <<"M">> -> "MIG"
      [] code = <<"T">> -> "TIG"
      [] code = <<"E">> -> "ELECTRODO"
      [] OTHER -> "UNKNOWN"

\* The middle of the range of the code, (min + max) / 2, or 0.
getScoreFromCode(code) ==
    CASE code = <<"A", "+">> -> ((95 + 100) * Q) \div 2
      [] code = <<"A">> -> ((90 + 94) * Q) \div 2
      [] code = <<"B">> -> ((80 + 89) * Q) \div 2
      [] code = <<"C">> -> ((70 + 79) * Q) \div 2
      [] code = <<"D">> -> ((60 + 69) * Q) \div 2
      [] code = <<"F">> -> ((0 + 59) * Q) \div 2
      [] OTHER -> 0

RECURSIVE ParseInt(_, _)
\* parseInt of the first i characters of a string of digits
ParseInt(s, i) ==
    IF i = 0 THEN 0
    ELSE 10 * ParseInt(s, i - 1) + ((CHOOSE k \in 1..10 : Upper36[k] = s[i]) - 1)

\* new Date(year, month - 1, day), kept as its three numbers
parseDateCode(dateCode) ==
    [year  |-> ParseInt(Substring(dateCode, 0, 4), 4),
     month |-> ParseInt(Substring(dateCode, 4, 6), 2),
     day   |-> ParseInt(Substring(dateCode, 6, 8), 2)]

parseValidationCode(code) ==
    IF ~validateCertificateCode(code) THEN NULL
    ELSE LET parts         == Split(code, "-")
             userHash      == Substring(parts[2], 0, 4)
             techniqueCode == CharAt(parts[2], 4)
             scoreCode     == Substring(parts[2], 5, 7)
             dateCode      == parts[3]
             randomCode    == parts[4]
         IN  [userHash   |-> userHash,
              technique  |-> getTechniqueFromCode(techniqueCode),
              scoreCode  |-> scoreCode,
              score      |-> getScoreFromCode(scoreCode),
              date       |-> parseDateCode(dateCode),
              randomCode |-> randomCode,
              isValid    |-> TRUE]

\* The characters of the names.
NameChars == {"A", "a", "n"}

\* Scores at both sides of every breakpoint of getScoreCode, in tenths.
ScoreInputs ==
    {0, 60 * Q - 5, 60 * Q, 70 * Q - 5, 70 * Q, 80 * Q - 5, 80 * Q,
     90 * Q - 5, 90 * Q, 95 * Q - 5, 95 * Q, 100 * Q}

\* The day of issue.
DateCodes == {<<"2", "0", "2", "4", "0", "1", "1", "5">>}

\* Digits of Math.random() in base 36: 0, 0.5 and a long fraction.
RandomFractions == {<<>>, <<"i">>, <<"4", "f", "z", "y", "o", "8">>}

CertificateInit ==
    /\ currentTechnique = "MIG"
    /\ isRecording = FALSE
    /\ currentSession = NULL
    /\ currentMetrics = NULL
    /\ sessionStartTime = NoTime
    /\ now = 1
    /\ lastOp = "init"
    /\ lastResult = NULL
    /\ \E n \in 0..MaxNameLen, technique \in WeldingType, score \in ScoreInputs,
          dateCode \in DateCodes, fraction \in RandomFractions :
          \E userName \in [1..n -> NameChars] :
              probe = [kind |-> "certificate", userName |-> userName,
                       technique |-> technique, score |-> score,
                       dateCode |-> dateCode, fraction |-> fraction,
                       evaluated |-> FALSE]

\* A code is generated and parsed back.
RoundTrip ==
    /\ probe.kind = "certificate" /\ ~probe.evaluated
    /\ LET code == generateValidationCode(probe.userName, probe.technique,
                       probe.score, probe.dateCode, probe.fraction)
       IN  probe' = [kind |-> "certificate", userName |-> probe.userName,
                     technique |-> probe.technique, score |-> probe.score,
                     dateCode |-> probe.dateCode, fraction |-> probe.fraction,
                     evaluated |-> TRUE, code |-> code,
                     parsed |-> parseValidationCode(code)]
    /\ UNCHANGED hookVars

CertificateNext == RoundTrip

CertificateSpec == CertificateInit /\ [][CertificateNext]_vars

\* C18: for every user name, every technique of MIG, TIG and ELECTRODO and
\* every score in [0, 100], parseValidationCode of the generated code is not
\* null and returns the original technique and a score of the same bucket
\* (F, D, C, B, A, A+).
C18_CodeRoundTrip ==
    (probe.kind = "certificate" /\ probe.evaluated) =>
        /\ probe.parsed # NULL
        /\ probe.parsed.technique = probe.technique
        /\ getScoreCode(probe.parsed.score) = getScoreCode(probe.score)

-----------------------------------------------------------------------------
(* The smoothness of a sample: the calculator scores the jerk against the  *)
(* previous sample, the hook scores the sample's own acceleration.         *)

\* sqrt(x^2 + y^2 + z^2), in tenths
calculateAccelerationMagnitude(sensorData) == Sqrt(SumSquares(sensorData.acceleration))

\* 100 without a previous sample, else max(0, 100 - jerk * 20)
evaluateMovementSmoothness(sensorData, previousSensorData) ==
    IF previousSensorData = NULL THEN Points(100)
    ELSE LET jerk == Abs(calculateAccelerationMagnitude(sensorData)
                           - calculateAccelerationMagnitude(previousSensorData))
         IN  Max(0, Points(100) - (jerk * 20 * P) \div Q)

\* C21: the first sample of a session has smoothness score 100 whatever its
\* acceleration, in the calculator (no previous sample) and in the hook's
\* per-sample score, so its stored qualityScore is the weighted sum of its
\* angle, distance and speed scores with smoothness 100.
C21_FirstSampleSmoothnessFull ==
    (currentSession # NULL /\ Len(currentSession.metrics) > 0) =>
        LET first   == currentSession.sensorData[1]
            m       == currentSession.metrics[1]
            params  == currentSession.parameters
        IN  /\ evaluateMovementSmoothness(first, NULL) = Points(100)
            /\ calculateSmoothnessScore(first) = Points(100)
            /\ m.qualityScore =
                 Weighted(calculateAngleScore(m.currentAngle, params.idealAngle),
                          calculateDistanceScore(m.currentDistance, params.idealDistance),
                          calculateSpeedScore(m.currentSpeed, params.idealSpeed),
                          Points(100), params.scoring)

-----------------------------------------------------------------------------
(* The export of a session to the sheet (services/googleSheets.ts).  The   *)
(* exported averages are in hundredths of a point.                         *)

\* metric[field] || 0: a field the metric lacks reads as undefined
Field(metric, field) == IF field \in DOMAIN metric THEN metric[field] ELSE 0

\* Math.round(x) of the non-negative quotient num / den
Round(num, den) == (2 * num + den) \div (2 * den)

\* new Date(t).toISOString()
ToISOString(t) == [iso |-> t]

\* Math.round((sum / metrics.length) * 100) / 100, 0 without metrics
calculateAverage(metrics, field) ==
    IF Len(metrics) = 0 THEN 0
    ELSE LET sum == SumOver([i \in 1..Len(metrics) |-> Field(metrics[i], field)],
                               Len(metrics))
         IN  Round(sum * 100, Len(metrics) * P)

\* The 16 fields of the row, built at time clock.
formatSessionForSheets(session, clock) ==
    [id                   |-> session.id,
     userId               |-> IF "userId" \in DOMAIN session
                              THEN session.userId ELSE "anonymous",
     userName             |-> IF "userName" \in DOMAIN session
                              THEN session.userName ELSE "Anonymous",
     technique            |-> session.technique,
     startTime            |-> ToISOString(session.startTime),
     endTime              |-> IF session.endTime # NoTime
                              THEN ToISOString(session.endTime) ELSE "",
     duration             |-> session.duration,
     finalScore           |-> session.finalScore,
     grade                |-> session.grade,
     avgAngleAccuracy     |-> calculateAverage(session.metrics, "angle"),
     avgDistanceStability |-> calculateAverage(session.metrics, "distance"),
     avgSpeedConsistency  |-> calculateAverage(session.metrics, "speed"),
     avgSmoothness        |-> calculateAverage(session.metrics, "smoothness"),
     totalDataPoints      |-> Len(session.sensorData),
     createdAt            |-> ToISOString(clock),
     updatedAt            |-> ToISOString(clock)]

\* The mean of the scores, rounded to two decimals (in hundredths).
MeanOfScores(scores) ==
    Round(SumOver(scores, Len(scores)) * 100, Len(scores) * P)

\* C22: for a completed session with at least one sample the exported
\* avgAngleAccuracy, avgDistanceStability, avgSpeedConsistency and
\* avgSmoothness are the means of the samples' angle, distance, speed and
\* smoothness scores rounded to two decimals; samples that all score 100 on
\* the angle export avgAngleAccuracy 100.
C22_ExportedAveragesAreMeans ==
    (/\ currentSession # NULL
     /\ currentSession.endTime # NoTime
     /\ Len(currentSession.metrics) > 0) =>
        LET row     == formatSessionForSheets(currentSession, now)
            metrics == currentSession.metrics
            params  == currentSession.parameters
            n       == Len(metrics)
            angles  == [i \in 1..n |->
                          calculateAngleScore(metrics[i].currentAngle, params.idealAngle)]
            dists   == [i \in 1..n |->
                          calculateDistanceScore(metrics[i].currentDistance,
                                                 params.idealDistance)]
            speeds  == [i \in 1..n |->
                          calculateSpeedScore(metrics[i].currentSpeed, params.idealSpeed)]
            smooths == [i \in 1..n |->
                          calculateSmoothnessScore(currentSession.sensorData[i])]
        IN  /\ row.avgAngleAccuracy = MeanOfScores(angles)
            /\ row.avgDistanceStability = MeanOfScores(dists)
            /\ row.avgSpeedConsistency = MeanOfScores(speeds)
            /\ row.avgSmoothness = MeanOfScores(smooths)
            /\ (\A i \in 1..n : angles[i] = Points(100))
                  => row.avgAngleAccuracy = 100 * 100

-----------------------------------------------------------------------------
(* The Simulator component: it renders the sensor sample and the marker    *)
(* list of the device hooks and the callbacks of the session hook, and its *)
(* update effect hands the rendered sample to updateSession.  probe holds  *)
(* the state of the device hooks that the component renders.               *)

\* useCameraAR's markers: none, or one detected marker
MarkerLists == {<<>>, <<[position |-> [z |-> 120]]>>}

SimulatorInit ==
    /\ currentTechnique = "MIG"
    /\ isRecording = FALSE
    /\ currentSession = NULL
    /\ currentMetrics = NULL
    /\ sessionStartTime = NoTime
    /\ now = 1
    /\ lastOp = "init"
    /\ lastResult = NULL
    /\ probe = [kind |-> "simulator", sensorData |-> NULL, markers |-> <<>>]

\* setSensorData of a motion event: the component renders a new sample.
DeliverSample ==
    /\ \E sensorData \in SensorInputs(now) :
          probe' = [probe EXCEPT !.sensorData = sensorData]
    /\ lastOp' = "sample"
    /\ UNCHANGED <<currentTechnique, isRecording, currentSession, currentMetrics,
                   sessionStartTime, now, lastResult>>

\* setMarkers of a detection frame: the component renders a new list.
DeliverMarkers ==
    /\ \E markers \in MarkerLists : probe' = [probe EXCEPT !.markers = markers]
    /\ lastOp' = "markers"
    /\ UNCHANGED <<currentTechnique, isRecording, currentSession, currentMetrics,
                   sessionStartTime, now, lastResult>>

\* The dependencies [sensorData, markers, isRecording, updateSession] of the
\* effect differ from those of its last run: updateSession is a callback of
\* [isRecording, currentSession], so it is a new function after every step
\* that sets one of the two.
EffectPending == lastOp # "effect"

\* The update effect, run after the render that changed a dependency.
UpdateEffect ==
    /\ EffectPending
    /\ IF isRecording /\ probe.sensorData # NULL
       THEN /\ Len(currentSession.sensorData) < MaxSamples
            /\ LET markers == probe.markers
                   latestMarker == IF Len(markers) > 0
                                   THEN markers[Len(markers)] ELSE NULL
               IN  updateSession(probe.sensorData, latestMarker)
       ELSE /\ lastOp' = "effect"
            /\ UNCHANGED <<currentTechnique, isRecording, currentSession,
                           currentMetrics, sessionStartTime, now, lastResult, probe>>

SimulatorNext == Start \/ Stop \/ DeliverSample \/ DeliverMarkers \/ UpdateEffect

SimulatorSpec == SimulatorInit /\ [][SimulatorNext]_vars

\* C23: while recording, an append by the update effect follows only the
\* delivery of a new sample or of a new marker list (or the start of the
\* recording); the append itself does not trigger the effect again, so no
\* append directly follows an append.
C23_OneAppendPerDelivery ==
    [][lastOp' = "update" => lastOp \in {"sample", "markers", "start"}]_vars

-----------------------------------------------------------------------------
(* The Apps Script backend (google-apps-script/Code.js): one sheet whose   *)
(* first row is the header; sessions and profiles are both written to it.  *)
(* Cells are strings; probe holds the sheet's rows and, for every session  *)
(* id, the row the last saveSession of that id wrote.                      *)

\* the rows below the header that the sheet may hold
MaxRows == 3

\* the width of the sheet
SHEET_COLUMNS == 16

HEADER ==
    <<"id", "userId", "userName", "technique", "startTime", "endTime",
      "duration", "finalScore", "grade", "avgAngleAccuracy",
      "avgDistanceStability", "avgSpeedConsistency", "avgSmoothness",
      "totalDataPoints", "createdAt", "updatedAt">>

\* new Date().toISOString() of the server
ServerNow == "server-now"

\* getSheet(): the sheet is created with its header when it is missing.
getSheet(rows) == IF rows = <<>> THEN <<HEADER>> ELSE rows

RECURSIVE FindFrom(_, _, _, _)
\* for (i = 1; i < data.length; i++) if (data[i][column] === value) return i + 1
FindFrom(data, column, value, row) ==
    IF row > Len(data) THEN -1
    ELSE IF data[row][column] = value THEN row
    ELSE FindFrom(data, column, value, row + 1)

\* the first row below the header whose column A is the session id
findSessionById(rows, sessionId) == FindFrom(getSheet(rows), 1, sessionId, 2)

\* the first row below the header whose column B is the id
findProfileById(rows, userId) == FindFrom(getSheet(rows), 2, userId, 2)

\* getRange(row, 1, 1, rowData.length).setValues([rowData])
SetValues(rows, row, rowData) ==
    [rows EXCEPT ![row] = [c \in 1..SHEET_COLUMNS |->
                              IF c <= Len(rowData) THEN rowData[c] ELSE @[c]]]

\* appendRow(rowData): the cells right of the data read back as "".
AppendRow(rows, rowData) ==
    Append(rows, [c \in 1..SHEET_COLUMNS |->
                     IF c <= Len(rowData) THEN rowData[c] ELSE ""])

\* The row saveSession builds.
SessionRowData(sessionData) ==
    <<sessionData.id, sessionData.userId, sessionData.userName,
      sessionData.technique, sessionData.startTime, sessionData.endTime,
      sessionData.duration, sessionData.finalScore, sessionData.grade,
      sessionData.avgAngleAccuracy, sessionData.avgDistanceStability,
      sessionData.avgSpeedConsistency, sessionData.avgSmoothness,
      sessionData.totalDataPoints,
      IF sessionData.createdAt # "" THEN sessionData.createdAt ELSE ServerNow,
      ServerNow>>

\* The row saveProfile builds.
ProfileRowData(profileData) ==
    <<profileData.id, profileData.name, profileData.email,
      profileData.preferredTechnique, profileData.totalSessions,
      profileData.bestScores, profileData.createdAt, ServerNow>>

\* Update the row found, or append a new one.
SaveRow(rows, existingRow, rowData) ==
    IF existingRow > 0
    THEN [rows |-> SetValues(getSheet(rows), existingRow, rowData),
          response |-> [success |-> TRUE, rowId |-> existingRow, updated |-> TRUE]]
    ELSE [rows |-> AppendRow(getSheet(rows), rowData),
          response |-> [success |-> TRUE, rowId |-> Len(getSheet(rows)) + 1,
                        created |-> TRUE]]

saveSessionRow(rows, sessionData) ==
    SaveRow(rows, findSessionById(rows, sessionData.id), SessionRowData(sessionData))

saveProfileRow(rows, profileData) ==
    SaveRow(rows, findProfileById(rows, profileData.id), ProfileRowData(profileData))

SessionIds == {"session_1", "session_2"}

UserIds == {"user_1", "user_2"}

\* The payloads of the saveSession requests.
SessionDatas ==
    {[id |-> id, userId |-> userId, userName |-> "Ana", technique |-> "MIG",
      startTime |-> "start", endTime |-> "end", duration |-> "60000",
      finalScore |-> "85", grade |-> grade, avgAngleAccuracy |-> "0",
      avgDistanceStability |-> "0", avgSpeedConsistency |-> "0",
      avgSmoothness |-> "0", totalDataPoints |-> "2", createdAt |-> createdAt,
      updatedAt |-> "sent"] :
        id \in SessionIds, userId \in UserIds, grade \in {"A", "B"},
        createdAt \in {"", "created"}}

\* The payloads of the saveProfile requests.
ProfileDatas ==
    {[id |-> id, name |-> name, email |-> "", preferredTechnique |-> "TIG",
      totalSessions |-> "1", bestScores |-> "{}", createdAt |-> "created"] :
        id \in UserIds, name \in {"Ana", "user_1"}}

SheetInit ==
    /\ currentTechnique = "MIG"
    /\ isRecording = FALSE
    /\ currentSession = NULL
    /\ currentMetrics = NULL
    /\ sessionStartTime = NoTime
    /\ now = 1
    /\ lastOp = "init"
    /\ lastResult = NULL
    /\ probe = [kind |-> "sheet", rows |-> <<>>, op |-> "none",
                response |-> NULL, saved |-> <<>>]

\* A row may be added to the sheet.
HasRoom == Len(probe.rows) <= MaxRows

\* Set the entry of key in a function given as a set of pairs.
Put(saved, key, value) ==
    [k \in DOMAIN saved \cup {key} |-> IF k = key THEN value ELSE saved[k]]

\* POST action=saveSession
SaveSession ==
    /\ \E sessionData \in SessionDatas :
          LET result == saveSessionRow(probe.rows, sessionData)
          IN  /\ (result.response.rowId > Len(probe.rows)) => HasRoom
              /\ probe' = [kind |-> "sheet", rows |-> result.rows,
                           op |-> "saveSession", response |-> result.response,
                           saved |-> Put(probe.saved, sessionData.id,
                                         result.rows[result.response.rowId])]
    /\ UNCHANGED hookVars

\* POST action=saveProfile
SaveProfile ==
    /\ \E profileData \in ProfileDatas :
          LET result == saveProfileRow(probe.rows, profileData)
          IN  /\ (result.response.rowId > Len(probe.rows)) => HasRoom
              /\ probe' = [probe EXCEPT !.rows = result.rows,
                                        !.op = "saveProfile",
                                        !.response = result.response]
    /\ UNCHANGED hookVars

SheetNext == SaveSession \/ SaveProfile

SheetSpec == SheetInit /\ [][SheetNext]_vars

\* C24: after any sequence of saveSession and saveProfile calls, every
\* session id that was saved still has a row holding the 16 columns that
\* the last saveSession of that id wrote; saveProfile overwrites no such row.
C24_ProfileKeepsSessionRows ==
    probe.kind = "sheet" =>
        \A id \in DOMAIN probe.saved :
            \E row \in 2..Len(probe.rows) : probe.rows[row] = probe.saved[id]

-----------------------------------------------------------------------------
(* The requests of the GoogleSheetsService client and their dispatch by    *)
(* the web app.  An endpoint is the path the client appends to the web     *)
(* app's URL together with the query parameters after its '?'.             *)

Endpoint(path, query) == [path |-> path, query |-> query]

\* no query parameters
NoQuery == <<>>

\* makeRequest(method, endpoint, data): the request fetch sends; the body is
\* set for POST and PUT only.
makeRequest(method, endpoint, data) ==
    [method    |-> method,
     pathInfo  |-> endpoint.path,
     parameter |-> endpoint.query,
     contents  |-> IF data # NULL /\ method \in {"POST", "PUT"} THEN data ELSE NULL]

\* The request each method of the service makes.
ClientRequest(operation, args) ==
    CASE operation = "saveSession" ->
            makeRequest("POST", Endpoint("/saveSession", NoQuery), args.data)
      [] operation = "saveCertificate" ->
            makeRequest("POST", Endpoint("/saveCertificate", NoQuery), args.data)
      [] operation = "saveProfile" ->
            makeRequest("POST", Endpoint("/saveProfile", NoQuery), args.data)
      [] operation = "saveSessionsBatch" ->
            makeRequest("POST", Endpoint("/saveSessionsBatch", NoQuery),
                        [sessions |-> args.data])
      [] operation = "getUserStatistics" ->
            makeRequest("GET", Endpoint("/getUserStatistics",
                                        [userId |-> args.userId]), NULL)
      [] operation = "getLeaderboard" ->
            makeRequest("GET",
                        IF args.technique # ""
                        THEN Endpoint("/getLeaderboard",
                                      [technique |-> args.technique,
                                       limit |-> args.limit])
                        ELSE Endpoint("/getLeaderboard", [limit |-> args.limit]),
                        NULL)
      [] operation = "validateCertificate" ->
            makeRequest("GET", Endpoint("/validateCertificate",
                                        [code |-> args.code]), NULL)
      [] operation = "exportUserData" ->
            makeRequest("GET", Endpoint("/exportUserData",
                                        [userId |-> args.userId]), NULL)
      [] operation = "test" ->
            makeRequest("GET", Endpoint("/test", NoQuery), NULL)

\* createResponse({ success: false, error: 'Invalid action' })
InvalidAction == [handler |-> "default", success |-> FALSE, error |-> "Invalid action"]

\* a handler of the web app was called
Handled(name) == [handler |-> name]

\* a required parameter is missing
ParameterRequired(name) ==
    [handler |-> "default", success |-> FALSE, error |-> name]

\* e.parameter has the named query parameter
HasParameter(e, name) == name \in DOMAIN e.parameter

\* switch (e.parameter.action) of doGet
doGet(e) ==
    IF ~HasParameter(e, "action") THEN InvalidAction
    ELSE LET action == e.parameter.action
         IN  CASE action = "test" -> Handled("test")
               [] action = "getUserStatistics" ->
                     IF HasParameter(e, "userId") THEN Handled("getUserStatistics")
                     ELSE ParameterRequired("userId parameter required")
               [] action = "getLeaderboard" -> Handled("getLeaderboard")
               [] action = "validateCertificate" ->
                     IF HasParameter(e, "code") THEN Handled("validateCertificate")
                     ELSE ParameterRequired("code parameter required")
               [] action = "exportUserData" ->
                     IF HasParameter(e, "userId") THEN Handled("exportUserData")
                     ELSE ParameterRequired("userId parameter required")
               [] OTHER -> InvalidAction

\* switch (e.parameter.action) of doPost
doPost(e) ==
    IF ~HasParameter(e, "action") THEN InvalidAction
    ELSE LET action == e.parameter.action
         IN  CASE action = "saveSession" -> Handled("saveSession")
               [] action = "saveCertificate" -> Handled("saveCertificate")
               [] action = "saveProfile" -> Handled("saveProfile")
               [] action = "saveSessionsBatch" -> Handled("saveSessionsBatch")
               [] OTHER -> InvalidAction

\* The web app calls the handler of the request's method.
WebApp(e) == IF e.method = "GET" THEN doGet(e) ELSE doPost(e)

CertificateCodes == {"WELD-ABC123-20240115-X7K9", "none"}

\* The calls of the service: an operation with its arguments.
ServiceCalls ==
    {[operation |-> "saveSession", args |-> [data |-> d]] : d \in SessionDatas}
      \cup {[operation |-> "saveProfile", args |-> [data |-> d]] : d \in ProfileDatas}
      \cup {[operation |-> "saveCertificate", args |-> [data |-> [validationCode |-> c]]] :
               c \in CertificateCodes}
      \cup {[operation |-> "saveSessionsBatch", args |-> [data |-> <<d>>]] :
               d \in SessionDatas}
      \cup {[operation |-> op, args |-> [userId |-> u]] :
               op \in {"getUserStatistics", "exportUserData"}, u \in UserIds}
      \cup {[operation |-> "getLeaderboard", args |-> [technique |-> t, limit |-> l]] :
               t \in WeldingType \cup {""}, l \in {10, 50}}
      \cup {[operation |-> "validateCertificate", args |-> [code |-> c]] :
               c \in CertificateCodes}
      \cup {[operation |-> "test", args |-> <<>>]}

RequestInit ==
    /\ currentTechnique = "MIG"
    /\ isRecording = FALSE
    /\ currentSession = NULL
    /\ currentMetrics = NULL
    /\ sessionStartTime = NoTime
    /\ now = 1
    /\ lastOp = "init"
    /\ lastResult = NULL
    /\ \E call \in ServiceCalls, configured \in BOOLEAN :
          probe = [kind |-> "request", call |-> call, configured |-> configured,
                   issued |-> FALSE]

\* One call of the service: without a configuration it answers itself,
\* else the web app answers the request.
IssueRequest ==
    /\ probe.kind = "request" /\ ~probe.issued
    /\ probe' = [kind |-> "request", call |-> probe.call,
                 configured |-> probe.configured, issued |-> TRUE,
                 response |->
                   IF ~probe.configured
                   THEN [handler |-> "none", success |-> FALSE,
                         error |-> "Google Sheets not configured"]
                   ELSE WebApp(ClientRequest(probe.call.operation, probe.call.args))]
    /\ UNCHANGED hookVars

RequestNext == IssueRequest

RequestSpec == RequestInit /\ [][RequestNext]_vars

\* C25: every request a configured service issues for an operation is
\* dispatched by doGet/doPost to the handler of that operation, never to
\* the 'Invalid action' default.
C25_RequestReachesItsHandler ==
    (probe.kind = "request" /\ probe.issued /\ probe.configured) =>
        /\ probe.response.handler = probe.call.operation
        /\ probe.response # InvalidAction

-----------------------------------------------------------------------------
(* The sensor hook useSensors.  probe holds its state and the listeners    *)
(* registered on the window; a listener is the pair of handlers of one     *)
(* startSensors call, with the sensorData that call's closure had.         *)

\* the listeners that may be registered at once
MaxListeners == 2

\* what requestPermission resolves to
PermissionAnswers == {"granted", "denied"}

\* a string is falsy only when it is empty
Truthy(string) == string # ""

\* the value setError stores
ErrorMessage(message) == [message |-> message]

SensorsInit ==
    /\ currentTechnique = "MIG"
    /\ isRecording = FALSE
    /\ currentSession = NULL
    /\ currentMetrics = NULL
    /\ sessionStartTime = NoTime
    /\ now = 1
    /\ lastOp = "init"
    /\ lastResult = NULL
    /\ probe = [kind        |-> "sensors",
                sensorData  |-> NULL,
                permissions |-> [camera |-> "prompt", motion |-> "prompt",
                                 orientation |-> "prompt"],
                isActive    |-> FALSE,
                error       |-> NULL,
                listeners   |-> <<>>,
                op          |-> "init"]

\* requestPermissions(): the camera, motion and orientation answers.
requestPermissions ==
    /\ \E camera \in PermissionAnswers, motion \in PermissionAnswers,
          orientation \in PermissionAnswers :
          probe' = [probe EXCEPT
                      !.permissions = [camera |-> camera, motion |-> motion,
                                       orientation |-> orientation],
                      !.error = IF camera = "denied"
                                THEN ErrorMessage("Camera permission denied")
                                ELSE NULL,
                      !.op = "requestPermissions"]
    /\ UNCHANGED hookVars

\* startSensors(): the caller drops the cleanup function it returns.
startSensors ==
    /\ Len(probe.listeners) < MaxListeners
    /\ IF ~Truthy(probe.permissions.motion) \/ ~Truthy(probe.permissions.orientation)
       THEN probe' = [probe EXCEPT !.error = ErrorMessage("Sensor permissions required"),
                                   !.op = "startSensors"]
       ELSE probe' = [probe EXCEPT
                        !.isActive = TRUE,
                        !.error = NULL,
                        !.listeners = Append(@, [sensorData |-> probe.sensorData]),
                        !.op = "startSensors"]
    /\ UNCHANGED hookVars

\* stopSensors(): the listeners stay registered.
stopSensors ==
    /\ probe' = [probe EXCEPT !.isActive = FALSE, !.sensorData = NULL,
                              !.op = "stopSensors"]
    /\ UNCHANGED hookVars

\* A devicemotion event reaches the registered handleDeviceMotion: a sample
\* is stored when the event carries acceleration and rotationRate.
DeviceMotion ==
    /\ Len(probe.listeners) > 0
    /\ \E complete \in BOOLEAN, sample \in SensorInputs(now) :
          probe' = [probe EXCEPT
                      !.sensorData = IF complete THEN sample ELSE @,
                      !.op = "devicemotion"]
    /\ UNCHANGED hookVars

\* A deviceorientation event reaches the registered handleDeviceOrientation:
\* a handler whose closure had a sample updates the gyroscope of the
\* stored sample, if there is one.
DeviceOrientation ==
    /\ Len(probe.listeners) > 0
    /\ \E beta \in BetaInputs :
          probe' = [probe EXCEPT
                      !.sensorData =
                         IF (\E i \in 1..Len(probe.listeners) :
                                 probe.listeners[i].sensorData # NULL) /\ @ # NULL
                         THEN [@ EXCEPT !.gyroscope = [beta |-> beta]]
                         ELSE @,
                      !.op = "deviceorientation"]
    /\ UNCHANGED hookVars

SensorsNext ==
    requestPermissions \/ startSensors \/ stopSensors \/ DeviceMotion \/ DeviceOrientation

SensorsSpec == SensorsInit /\ [][SensorsNext]_vars

\* C26: once stopSensors has run, sensorData is null and stays null,
\* whatever devicemotion or deviceorientation events fire, until startSensors
\* is called again (which is when isActive becomes true again).
C26_StoppedSensorsStaySilent ==
    (probe.kind = "sensors" /\ ~probe.isActive) => probe.sensorData = NULL

\* C27: startSensors sets isActive and registers its listeners only when
\* the motion and the orientation permission are both 'granted'; otherwise
\* it sets the error 'Sensor permissions required', leaves isActive as it
\* was and registers no listener.
C27_StartNeedsGrantedPermissions ==
    [][(probe.kind = "sensors" /\ probe'.op = "startSensors") =>
          IF probe.permissions.motion = "granted"
                /\ probe.permissions.orientation = "granted"
          THEN /\ probe'.isActive
               /\ Len(probe'.listeners) = Len(probe.listeners) + 1
          ELSE /\ probe'.error = ErrorMessage("Sensor permissions required")
               /\ probe'.isActive = probe.isActive
               /\ probe'.listeners = probe.listeners]_vars

-----------------------------------------------------------------------------
(* The camera hook useCameraAR.  probe holds its state, the refs, the      *)
(* pending one-second timers of startCamera and the pending animation      *)
(* frames of the detection loops.                                          *)

\* the timers, and the animation-frame callbacks, that may be pending at once
MaxLoops == 2

\* useState(false) of isActive: the value the first render's callbacks close over
FIRST_RENDER_ACTIVE == FALSE

CameraInit ==
    /\ currentTechnique = "MIG"
    /\ isRecording = FALSE
    /\ currentSession = NULL
    /\ currentMetrics = NULL
    /\ sessionStartTime = NoTime
    /\ now = 1
    /\ lastOp = "init"
    /\ lastResult = NULL
    /\ \E video \in BOOLEAN, canvas \in BOOLEAN :
          probe = [kind          |-> "camera",
                   video         |-> video,     \* videoRef.current is set
                   canvas        |-> canvas,    \* canvasRef.current is set
                   isActive      |-> FALSE,
                   isDetecting   |-> FALSE,
                   error         |-> NULL,
                   stream        |-> FALSE,
                   markers       |-> 0,
                   processing    |-> FALSE,     \* processingRef.current
                   timers        |-> 0,
                   pendingFrames |-> 0,
                   frames        |-> 0,
                   op            |-> "init"]

\* startCamera(): getUserMedia resolves or rejects.  The callback has no
\* dependencies, so its timer calls the startARDetection of the first render.
startCamera ==
    /\ probe.kind = "camera" /\ probe.timers < MaxLoops
    /\ \E granted \in BOOLEAN :
          probe' = IF granted
                   THEN [probe EXCEPT !.error = NULL, !.stream = TRUE,
                                      !.isActive = TRUE, !.timers = @ + 1,
                                      !.op = "startCamera"]
                   ELSE [probe EXCEPT
                           !.error = ErrorMessage("Camera access denied or not available"),
                           !.isActive = FALSE, !.op = "startCamera"]
    /\ UNCHANGED hookVars

\* stopCamera()
stopCamera ==
    /\ probe.kind = "camera"
    /\ probe' = [probe EXCEPT !.stream = FALSE, !.isActive = FALSE,
                              !.isDetecting = FALSE, !.markers = 0,
                              !.processing = FALSE, !.op = "stopCamera"]
    /\ UNCHANGED hookVars

\* detectMarkers of a startARDetection whose closure has isActive = active:
\* it returns at once unless processingRef and that isActive are both set;
\* it waits for the video, or processes a frame (which may add a marker);
\* in both cases it asks for the next animation frame.
detectMarkers(p, active, ready, found) ==
    IF ~p.processing \/ ~active THEN p
    ELSE IF ~p.video \/ ~ready THEN [p EXCEPT !.pendingFrames = @ + 1]
    ELSE [p EXCEPT !.frames = @ + 1,
                   !.markers = IF found THEN @ + 1 ELSE @,
                   !.pendingFrames = @ + 1]

\* startARDetection of a render whose isActive is active
startARDetection(p, active, ready, found) ==
    IF ~p.video \/ ~p.canvas THEN p
    ELSE detectMarkers([p EXCEPT !.isDetecting = TRUE, !.processing = TRUE],
                       active, ready, found)

\* The timer of startCamera fires.
DetectionTimer ==
    /\ probe.kind = "camera" /\ probe.timers > 0
    /\ \E ready \in BOOLEAN, found \in BOOLEAN :
          probe' = [startARDetection([probe EXCEPT !.timers = @ - 1],
                                     FIRST_RENDER_ACTIVE, ready, found)
                      EXCEPT !.op = "timer"]
    /\ UNCHANGED hookVars

\* A component calls the startARDetection the hook returned to its render.
StartDetection ==
    /\ probe.kind = "camera"
    /\ probe.pendingFrames < MaxLoops /\ probe.frames < MaxFrames
    /\ \E ready \in BOOLEAN, found \in BOOLEAN :
          probe' = [startARDetection(probe, probe.isActive, ready, found)
                      EXCEPT !.op = "startARDetection"]
    /\ UNCHANGED hookVars

\* An animation frame runs the detectMarkers that asked for it.
AnimationFrame ==
    /\ probe.kind = "camera"
    /\ probe.pendingFrames > 0 /\ probe.frames < MaxFrames
    /\ \E ready \in BOOLEAN, found \in BOOLEAN :
          probe' = [detectMarkers([probe EXCEPT !.pendingFrames = @ - 1],
                                  TRUE, ready, found)
                      EXCEPT !.op = "frame"]
    /\ UNCHANGED hookVars

CameraNext ==
    startCamera \/ stopCamera \/ DetectionTimer \/ StartDetection \/ AnimationFrame

CameraSpec == CameraInit /\ [][CameraNext]_vars

-----------------------------------------------------------------------------
(* The calibration wizard (Calibration of part_004).  probe holds its      *)
(* state and the status of the camera, of the sensor permissions and of    *)
(* the markers that its one-second poll reads.                             *)

\* the index of the last step, 'Calibración Final'
LAST_STEP == 3

WizardInit ==
    /\ currentTechnique = "MIG"
    /\ isRecording = FALSE
    /\ currentSession = NULL
    /\ currentMetrics = NULL
    /\ sessionStartTime = NoTime
    /\ now = 1
    /\ lastOp = "init"
    /\ lastResult = NULL
    /\ probe = [kind            |-> "wizard",
                activeStep      |-> 0,
                isCompleted     |-> FALSE,
                calibrationData |-> [camera |-> FALSE, sensors |-> FALSE,
                                     ar |-> FALSE, settings |-> FALSE],
                cameraActive    |-> FALSE,   \* isActive && !hasError of the camera
                sensorsGranted  |-> FALSE,   \* motion and orientation 'granted'
                markersCount    |-> 0,
                onComplete      |-> FALSE,   \* onComplete() was called
                op              |-> "init"]

\* One run of the auto-advance effect on the rendered state.
AutoAdvance(p) ==
    IF p.calibrationData.camera /\ p.activeStep = 0 THEN [p EXCEPT !.activeStep = 1]
    ELSE IF p.calibrationData.sensors /\ p.activeStep = 1 THEN [p EXCEPT !.activeStep = 2]
    ELSE IF p.calibrationData.ar /\ p.activeStep = 2 THEN [p EXCEPT !.activeStep = 3]
    ELSE IF p.calibrationData.settings /\ p.activeStep = LAST_STEP
         THEN [p EXCEPT !.isCompleted = TRUE]
    ELSE p

RECURSIVE Settled(_)
\* The effect runs again after every render that changed calibrationData or
\* activeStep, until a run changes nothing.
Settled(p) == IF AutoAdvance(p) = p THEN p ELSE Settled(AutoAdvance(p))

\* checkCalibration, once a second
StatusPoll ==
    /\ probe.kind = "wizard"
    /\ probe' = Settled([probe EXCEPT
                           !.calibrationData =
                               [camera   |-> probe.cameraActive,
                                sensors  |-> probe.sensorsGranted,
                                ar       |-> probe.markersCount > 0,
                                settings |-> TRUE],
                           !.op = "poll"])
    /\ UNCHANGED hookVars

\* A click on a step of the stepper.
handleStepClick(step) ==
    /\ probe.kind = "wizard"
    /\ probe' = Settled([probe EXCEPT !.activeStep = step, !.op = "step"])
    /\ UNCHANGED hookVars

StepClick == \E step \in 0..LAST_STEP : handleStepClick(step)

\* 'Anterior', disabled on the first step
Anterior ==
    /\ probe.kind = "wizard" /\ probe.activeStep # 0
    /\ probe' = Settled([probe EXCEPT !.activeStep = @ - 1, !.op = "anterior"])
    /\ UNCHANGED hookVars

\* 'Finalizar Calibración', disabled until isCompleted
handleCompleteCalibration ==
    /\ probe.kind = "wizard" /\ probe.isCompleted
    /\ probe' = [probe EXCEPT !.onComplete = TRUE, !.op = "complete"]
    /\ UNCHANGED hookVars

\* The camera starts, fails or stops; the permissions are answered; a
\* marker is seen or the markers expire.
DeviceStatus ==
    /\ probe.kind = "wizard"
    /\ \E camera \in BOOLEAN, sensors \in BOOLEAN, count \in 0..1 :
          probe' = [probe EXCEPT !.cameraActive = camera,
                                 !.sensorsGranted = sensors,
                                 !.markersCount = count,
                                 !.op = "device"]
    /\ UNCHANGED hookVars

WizardNext ==
    StatusPoll \/ StepClick \/ Anterior \/ handleCompleteCalibration \/ DeviceStatus

WizardSpec == WizardInit /\ [][WizardNext]_vars

\* C29: isCompleted becomes true only in a state where the camera check,
\* the sensor-permission check and the AR-marker check have all succeeded,
\* whatever step clicks, 'Anterior' clicks and status polls came before.
C29_CompletedOnlyWhenAllChecked ==
    [][(probe.kind = "wizard" /\ ~probe.isCompleted /\ probe'.isCompleted) =>
          /\ probe'.calibrationData.camera
          /\ probe'.calibrationData.sensors
          /\ probe'.calibrationData.ar]_vars

-----------------------------------------------------------------------------
(* The certificate generator component (Results.tsx), which builds the     *)
(* validation code of a certificate with a function of its own, and        *)
(* validateCertificate of certificateUtils.ts.                             *)

RECURSIVE RemoveAll(_, _)
\* String.prototype.replace(/-/g, '') for the character given
RemoveAll(s, char) ==
    IF s = <<>> THEN <<>>
    ELSE IF Head(s) = char THEN RemoveAll(Tail(s), char)
    ELSE <<Head(s)>> \o RemoveAll(Tail(s), char)

\* `${prefix}-${randomPart}-${datePart}` of the component; isoString is
\* new Date().toISOString(), fraction the digits of Math.random() in base 36.
CertificateGenerator_generateValidationCode(fraction, isoString) ==
    LET prefix     == <<"W", "E", "L", "D">>
        randomPart == ToUpperCase(Substring(RandomString(fraction), 2, 8))
        datePart   == RemoveAll(Substring(isoString, 0, 10), "-")
    IN  prefix \o <<"-">> \o randomPart \o <<"-">> \o datePart

\* a > b for dates given as year, month and day
DateAfter(a, b) ==
    \/ a.year > b.year
    \/ a.year = b.year /\ a.month > b.month
    \/ a.year = b.year /\ a.month = b.month /\ a.day > b.day

\* validateCertificate(code, expectedData); today is the day of the call and
\* the latest date accepted is the same day of the next year.
validateCertificate(code, expectedData, today) ==
    LET parsed == parseValidationCode(code)
    IN  IF parsed = NULL THEN FALSE
        ELSE IF expectedData = NULL THEN TRUE
        ELSE IF parsed.technique # expectedData.technique THEN FALSE
        ELSE IF expectedData.score # 0
                  /\ Abs(parsed.score - expectedData.score) > 10 * Q THEN FALSE
        ELSE ~DateAfter(parsed.date, [today EXCEPT !.year = @ + 1])

\* new Date().toISOString() on the day of issue
IsoStrings ==
    {<<"2", "0", "2", "4", "-", "0", "1", "-", "1", "5", "T", "0", "9", ":",
       "3", "0", ":", "0", "0", ".", "0", "0", "0", "Z">>,
     <<"2", "0", "2", "5", "-", "1", "2", "-", "3", "1", "T", "2", "3", ":",
       "5", "9", ":", "5", "9", ".", "9", "9", "9", "Z">>}

\* Digits of Math.random() in base 36: 0, 0.5, six digits and eleven digits.
GeneratorFractions ==
    RandomFractions \cup {<<"k", "2", "x", "9", "q", "0", "7", "a", "b", "c", "d">>}

GeneratorInit ==
    /\ currentTechnique = "MIG"
    /\ isRecording = FALSE
    /\ currentSession = NULL
    /\ currentMetrics = NULL
    /\ sessionStartTime = NoTime
    /\ now = 1
    /\ lastOp = "init"
    /\ lastResult = NULL
    /\ \E technique \in WeldingType, score \in ScoreInputs,
          isoString \in IsoStrings, fraction \in GeneratorFractions :
          probe = [kind |-> "generator", technique |-> technique,
                   score |-> score, isoString |-> isoString,
                   fraction |-> fraction, evaluated |-> FALSE]

\* The component generates a certificate; its code is then validated,
\* parsed and checked against the certificate.
GenerateCertificate ==
    /\ probe.kind = "generator" /\ ~probe.evaluated
    /\ LET code == CertificateGenerator_generateValidationCode(probe.fraction,
                                                               probe.isoString)
           certificate == [technique |-> probe.technique, score |-> probe.score,
                           validationCode |-> code]
           today == parseDateCode(RemoveAll(Substring(probe.isoString, 0, 10), "-"))
       IN  probe' = [kind |-> "generator", technique |-> probe.technique,
                     score |-> probe.score, isoString |-> probe.isoString,
                     fraction |-> probe.fraction, evaluated |-> TRUE,
                     code |-> code,
                     accepted |-> validateCertificateCode(code),
                     parsed |-> parseValidationCode(code),
                     valid |-> validateCertificate(code, certificate, today)]
    /\ UNCHANGED hookVars

GeneratorNext == GenerateCertificate

GeneratorSpec == GeneratorInit /\ [][GeneratorNext]_vars

\* C30: every validation code the certificate generator component produces
\* is accepted by validateCertificateCode, so that parseValidationCode
\* parses it.
C30_GeneratedCodeIsAccepted ==
    (probe.kind = "generator" /\ probe.evaluated) =>
        probe.accepted /\ probe.parsed # NULL

=============================================================================
